---------------------------- MODULE Spec2Model ----------------------------
(***************************************************************************)
(* guard_worker: a Cloudflare Worker that receives security alerts and CSP *)
(* violation reports and forwards them as HTML email through SendGrid.     *)
(*                                                                         *)
(* The model follows the worker entry point (fetch), its two handlers      *)
(* (handleSecurityAlert, handleCspReport), the registry lookup, the CSP    *)
(* app-name inference, the renderer of email.ts and the transport          *)
(* (sendEmail).  JavaScript strings are sequences of one-character         *)
(* strings, so that upper-casing, replacing, substring search, parsing and *)
(* escaping are computed character by character.  A handler runs without   *)
(* interruption between two awaits, so there is one action per             *)
(* await-delimited segment of a request.                                   *)
(***************************************************************************)
EXTENDS Integers, Sequences, FiniteSets, TLC

VARIABLES env, req, pc, handler, payload, sent, outcome, emailResult, resp, stages, applied

vars == <<env, req, pc, handler, payload, sent, outcome, emailResult, resp, stages, applied>>

(***************************************************************************)
(* JavaScript values                                                       *)
(***************************************************************************)
Undef == [t |-> "undefined"]

Null == [t |-> "null"]

Str(s) == [t |-> "string", v |-> s]

Num(n) == [t |-> "number", v |-> n]

Bool(b) == [t |-> "boolean", v |-> b]

\* An object read by fixed property names: f is a record of its properties.
Obj(f) == [t |-> "object", f |-> f]

\* An object with caller-chosen keys, in insertion order: e is a sequence of
\* <<key, value>> pairs.
Dict(e) == [t |-> "object", e |-> e]

\* typeof x === 'string'
IsString(x) == x.t = "string"

\* typeof x === 'number'
IsNumber(x) == x.t = "number"

\* ToBoolean(x): undefined, null, "", 0 and false are falsy.
Truthy(x) ==
  CASE x.t = "undefined" -> FALSE
    [] x.t = "null" -> FALSE
    [] x.t = "string" -> Len(x.v) > 0
    [] x.t = "number" -> x.v # 0
    [] x.t = "boolean" -> x.v
    [] OTHER -> TRUE

\* The outcome of evaluating an expression: a value, or a raised exception.
Ret(v) == [threw |-> FALSE, v |-> v]

Throw == [threw |-> TRUE]

\* x[k] for a fixed property name k: reading a property of undefined or null
\* raises TypeError; a primitive or an object without the property gives
\* undefined.
GetProp(x, k) ==
  IF x.t \in {"undefined", "null"} THEN Throw
  ELSE IF x.t = "object" /\ "f" \in DOMAIN x /\ k \in DOMAIN x.f THEN Ret(x.f[k])
  ELSE Ret(Undef)

(***************************************************************************)
(* String primitives                                                       *)
(***************************************************************************)
LowerLetters ==
  <<"a", "b", "c", "d", "e", "f", "g", "h", "i", "j", "k", "l", "m",
    "n", "o", "p", "q", "r", "s", "t", "u", "v", "w", "x", "y", "z">>

UpperLetters ==
  <<"A", "B", "C", "D", "E", "F", "G", "H", "I", "J", "K", "L", "M",
    "N", "O", "P", "Q", "R", "S", "T", "U", "V", "W", "X", "Y", "Z">>

ToUpperChar(c) ==
  IF \E k \in DOMAIN LowerLetters : LowerLetters[k] = c
  THEN UpperLetters[CHOOSE k \in DOMAIN LowerLetters : LowerLetters[k] = c]
  ELSE c

\* String.prototype.toUpperCase
toUpperCase(s) == [k \in DOMAIN s |-> ToUpperChar(s[k])]

\* s.replace(/c/g, d) for a single character c and a one-character d
ReplaceChar(s, c, d) == [k \in DOMAIN s |-> IF s[k] = c THEN d ELSE s[k]]

\* s.replace(/c/g, r) for a single character c and a replacement string r:
\* every occurrence of c, from left to right, gives r, and every other
\* character itself.  (The string is split in halves to keep the recursion
\* shallow.)
RECURSIVE ReplaceAll(_, _, _)
ReplaceAll(s, c, r) ==
  IF s = <<>> THEN <<>>
  ELSE IF Len(s) = 1 THEN (IF s[1] = c THEN r ELSE s)
  ELSE ReplaceAll(SubSeq(s, 1, Len(s) \div 2), c, r)
       \o ReplaceAll(SubSeq(s, (Len(s) \div 2) + 1, Len(s)), c, r)

\* hay.includes(needle)
Includes(hay, needle) ==
  \E k \in 1..(Len(hay) - Len(needle) + 1) :
    SubSeq(hay, k, k + Len(needle) - 1) = needle

Digits == <<"0", "1", "2", "3", "4", "5", "6", "7", "8", "9">>

IsDigit(c) == \E k \in DOMAIN Digits : Digits[k] = c

DigitValue(c) == (CHOOSE k \in DOMAIN Digits : Digits[k] = c) - 1

\* The decimal digits of a natural number, as a request header carries them.
RECURSIVE ToDecimal(_)
ToDecimal(n) ==
  IF n < 10 THEN <<Digits[n + 1]>>
  ELSE ToDecimal(n \div 10) \o <<Digits[(n % 10) + 1]>>

RECURSIVE DigitPrefixValue(_, _)
DigitPrefixValue(s, acc) ==
  IF s = <<>> \/ ~IsDigit(Head(s)) THEN acc
  ELSE DigitPrefixValue(Tail(s), acc * 10 + DigitValue(Head(s)))

\* parseInt(s, 10) on an unsigned header value: the value of the longest
\* prefix of digits, NaN when there is none.
NaN == [t |-> "number", nan |-> TRUE]

parseInt(s) ==
  IF s = <<>> \/ ~IsDigit(Head(s)) THEN NaN
  ELSE Num(DigitPrefixValue(s, 0))

(***************************************************************************)
(* email.ts: the alert types, the escaper and the renderer                 *)
(***************************************************************************)
VALID_ALERT_TYPES ==
  << <<"u", "n", "a", "u", "t", "h", "o", "r", "i", "z", "e", "d", "_", "f", "e", "t", "c", "h">>,
     <<"u", "n", "a", "u", "t", "h", "o", "r", "i", "z", "e", "d", "_", "x", "h", "r">>,
     <<"u", "n", "a", "u", "t", "h", "o", "r", "i", "z", "e", "d", "_", "w", "e", "b", "s", "o", "c", "k", "e", "t">>,
     <<"c", "s", "p", "_", "v", "i", "o", "l", "a", "t", "i", "o", "n">> >>

\* One pass of String.prototype.replace with a global single-character
\* pattern, as escapeHtml chains them.
EscapeAmp(s) == ReplaceAll(s, "&", <<"&", "a", "m", "p", ";">>)

EscapeLt(s) == ReplaceAll(s, "<", <<"&", "l", "t", ";">>)

EscapeGt(s) == ReplaceAll(s, ">", <<"&", "g", "t", ";">>)

EscapeQuot(s) == ReplaceAll(s, "\"", <<"&", "q", "u", "o", "t", ";">>)

EscapeApos(s) == ReplaceAll(s, "'", <<"&", "#", "0", "3", "9", ";">>)

\* A variant of the escaper with the ampersand pass last, which escapes the
\* ampersands of the entities the other passes introduced: what
\* C16_EscapesPerCharacter rules out.
escapeHtmlAmpLast(s) == EscapeAmp(EscapeApos(EscapeQuot(EscapeGt(EscapeLt(s)))))

\* escapeHtml on a string: the five passes in the order of the source.
escapeHtml(s) == EscapeApos(EscapeQuot(EscapeGt(EscapeLt(EscapeAmp(s)))))

\* A variant that interpolates a string as it is: what
\* C17_ValuesReachTheDocumentEscaped rules out.
EscapeValueRaw(x) == IF IsString(x) THEN Ret(x.v) ELSE Throw

\* escapeHtml(x) for any value x: a value that is not a string has no
\* replace method, and the call raises TypeError.
EscapeValue(x) == IF IsString(x) THEN Ret(escapeHtml(x.v)) ELSE Throw

\* Time values are counted in days (86,400,000 ms each): a Date holds at most
\* 100,000,000 days on either side of the epoch, and toISOString raises
\* RangeError outside that range.
MaxTimeValue == 100000000

\* new Date(t).toISOString() for a number t.  The calendar conversion is not
\* computed: the result is the digits of t between "T" and "Z", which like the
\* real result holds no HTML metacharacter.
toISOString(x) ==
  IF IsNumber(x) /\ "v" \in DOMAIN x /\ x.v >= -MaxTimeValue /\ x.v <= MaxTimeValue
  THEN Ret(<<"T">> \o (IF x.v < 0 THEN <<"-">> \o ToDecimal(-x.v) ELSE ToDecimal(x.v))
           \o <<"Z">>)
  ELSE Throw

\* JSON string quoting of the characters the model uses.
JsonQuote(s) ==
  <<"\"">> \o ReplaceAll(ReplaceAll(s, "\\", <<"\\", "\\">>), "\"", <<"\\", "\"">>)
  \o <<"\"">>

RECURSIVE Indent(_)
Indent(n) == IF n = 0 THEN <<>> ELSE <<" ", " ">> \o Indent(n - 1)

\* JSON.stringify(v, null, 2) at nesting level lvl; properties whose value is
\* undefined are left out.
RECURSIVE Stringify(_, _)
RECURSIVE StringifyEntries(_, _)
Stringify(v, lvl) ==
  CASE v.t = "string" -> JsonQuote(v.v)
    [] v.t = "number" -> ToDecimal(v.v)
    [] v.t = "boolean" -> IF v.v THEN <<"t", "r", "u", "e">> ELSE <<"f", "a", "l", "s", "e">>
    [] v.t = "null" -> <<"n", "u", "l", "l">>
    [] OTHER ->
         LET present == SelectSeq(v.e, LAMBDA p : p[2].t # "undefined")
         IN IF present = <<>> THEN <<"{", "}">>
            ELSE <<"{", "\n">> \o StringifyEntries(present, lvl + 1)
                 \o <<"\n">> \o Indent(lvl) \o <<"}">>

StringifyEntries(es, lvl) ==
  Indent(lvl) \o JsonQuote(es[1][1]) \o <<":", " ">> \o Stringify(es[1][2], lvl)
  \o (IF Len(es) = 1 THEN <<>> ELSE <<",", "\n">> \o StringifyEntries(Tail(es), lvl))

\* The header line: alert.type.replace(/_/g, ' ').toUpperCase()
TypeHeader(x) ==
  IF IsString(x) THEN Ret(toUpperCase(ReplaceChar(x.v, "_", " "))) ELSE Throw

Field(label, value) == [label |-> label, value |-> value]

\* A variant of the conditional block that tests for undefined instead of
\* truthiness, and so shows an empty value under its label: what
\* C18_ConditionalRendering rules out.
OptionalFieldWhenDefined(label, x) ==
  IF x = Undef THEN Ret(<<>>)
  ELSE IF EscapeValue(x).threw THEN Throw
  ELSE Ret(<<Field(label, EscapeValue(x).v)>>)

\* One conditional block of the template: absent when the value is falsy,
\* otherwise the escaped value under its label.
OptionalField(label, x) ==
  IF ~Truthy(x) THEN Ret(<<>>)
  ELSE IF EscapeValue(x).threw THEN Throw
  ELSE Ret(<<Field(label, EscapeValue(x).v)>>)

\* The metadata block: escaped, pretty-printed JSON of a truthy metadata.
MetadataField(x) ==
  IF ~Truthy(x) THEN Ret(<<>>)
  ELSE Ret(<<Field("Additional Details", escapeHtml(Stringify(x, 0)))>>)

\* A variant of the renderer without the User Agent block, as the template
\* inside src/index.ts has it: what C19_UserAgentRendered rules out.
formatSecurityAlertEmailWithoutUserAgent(alert) ==
  LET ts == toISOString(alert.timestamp)
      hd == TypeHeader(alert.type)
      app == EscapeValue(alert.appName)
      url == EscapeValue(alert.url)
      host == EscapeValue(alert.hostname)
      ver == OptionalField("App Version", alert.appVersion)
      stk == OptionalField("Stack Trace", alert.stack)
      meta == MetadataField(alert.metadata)
  IN IF ts.threw \/ hd.threw \/ app.threw \/ url.threw \/ host.threw
        \/ ver.threw \/ stk.threw
     THEN Throw
     ELSE Ret([header |-> hd.v,
               fields |-> << Field("Application", app.v),
                             Field("Date & Time", ts.v),
                             Field("Blocked URL", url.v),
                             Field("Hostname", host.v) >>
                          \o ver.v \o stk.v \o meta.v])

\* formatSecurityAlertEmail(alert), alert being the record of the alert's
\* properties.  The document is its header and its fields in template order;
\* an exception raised by any interpolated expression is raised by the call.
formatSecurityAlertEmail(alert) ==
  LET ts == toISOString(alert.timestamp)
      hd == TypeHeader(alert.type)
      app == EscapeValue(alert.appName)
      url == EscapeValue(alert.url)
      host == EscapeValue(alert.hostname)
      ver == OptionalField("App Version", alert.appVersion)
      ua == OptionalField("User Agent", alert.userAgent)
      stk == OptionalField("Stack Trace", alert.stack)
      meta == MetadataField(alert.metadata)
  IN IF ts.threw \/ hd.threw \/ app.threw \/ url.threw \/ host.threw
        \/ ver.threw \/ ua.threw \/ stk.threw
     THEN Throw
     ELSE Ret([header |-> hd.v,
               fields |-> << Field("Application", app.v),
                             Field("Date & Time", ts.v),
                             Field("Blocked URL", url.v),
                             Field("Hostname", host.v) >>
                          \o ver.v \o ua.v \o stk.v \o meta.v])

(***************************************************************************)
(* The worker: constants, URL parsing, registry lookup, inference          *)
(***************************************************************************)
MAX_REQUEST_BODY_SIZE == 100 * 1024

corsHeaders ==
  { <<"Access-Control-Allow-Origin", "*">>,
    <<"Access-Control-Allow-Methods", "POST, OPTIONS">>,
    <<"Access-Control-Allow-Headers", "Content-Type">> }

\* A variant of the JSON responses' headers that leaves the spread of
\* corsHeaders out: what C9_CorsOnEveryResponse rules out.
contentTypeHeader == { <<"Content-Type", "application/json">> }

\* { ...corsHeaders, 'Content-Type': 'application/json' }
jsonHeaders == corsHeaders \cup { <<"Content-Type", "application/json">> }

\* new Response(body, { status, headers })
Response(body, status, headers) == [status |-> status, body |-> body, headers |-> headers]

NoBody == [kind |-> "empty"]

TextBody(text) == [kind |-> "text", text |-> text]

\* JSON.stringify of a response object
JsonBody(json) == [kind |-> "json", json |-> json]

ToLowerChar(c) ==
  IF \E k \in DOMAIN UpperLetters : UpperLetters[k] = c
  THEN LowerLetters[CHOOSE k \in DOMAIN UpperLetters : UpperLetters[k] = c]
  ELSE c

toLowerCase(s) == [k \in DOMAIN s |-> ToLowerChar(s[k])]

IsLetter(c) ==
  \/ \E k \in DOMAIN LowerLetters : LowerLetters[k] = c
  \/ \E k \in DOMAIN UpperLetters : UpperLetters[k] = c

\* The first position of a character of set cs in s, Len(s) + 1 when none.
FirstOf(s, cs) ==
  IF \E k \in DOMAIN s : s[k] \in cs
  THEN CHOOSE k \in DOMAIN s : s[k] \in cs /\ \A j \in 1..(k - 1) : s[j] \notin cs
  ELSE Len(s) + 1

SpecialSchemes ==
  { <<"h", "t", "t", "p">>, <<"h", "t", "t", "p", "s">>, <<"w", "s">>, <<"w", "s", "s">>, <<"f", "t", "p">> }

\* The characters after the leading slashes of an authority.
RECURSIVE SkipSlashes(_)
SkipSlashes(s) == IF s # <<>> /\ Head(s) = "/" THEN SkipSlashes(Tail(s)) ELSE s

\* The string without its leading and trailing spaces.
RECURSIVE TrimSpaces(_)
TrimSpaces(s) ==
  IF s = <<>> THEN s
  ELSE IF Head(s) = " " THEN TrimSpaces(Tail(s))
  ELSE IF s[Len(s)] = " " THEN TrimSpaces(SubSeq(s, 1, Len(s) - 1))
  ELSE s

\* new URL(s) for a string s, for absolute URLs of the form
\* scheme ":" ["//" [userinfo "@"] host [":" port]] path: the scheme is a
\* letter followed by letters, digits, "+", "-" or "."; a string without such
\* a scheme raises TypeError; a special scheme needs a host, which is
\* lower-cased and may hold no space.  Leading and trailing spaces of the
\* input are dropped first.
ParseURL(s0) ==
  LET s == TrimSpaces(s0)
      colon == FirstOf(s, {":"})
      scheme == toLowerCase(SubSeq(s, 1, colon - 1))
      rest == SubSeq(s, colon + 1, Len(s))
      special == scheme \in SpecialSchemes
      hasAuthority == special \/ (Len(rest) >= 2 /\ SubSeq(rest, 1, 2) = <<"/", "/">>)
      afterSlashes == IF special THEN SkipSlashes(rest) ELSE SubSeq(rest, 3, Len(rest))
      authority == SubSeq(afterSlashes, 1, FirstOf(afterSlashes, {"/", "?", "#"}) - 1)
      at == FirstOf(authority, {"@"})
      hostPort == IF at <= Len(authority) THEN SubSeq(authority, at + 1, Len(authority))
                  ELSE authority
      host == SubSeq(hostPort, 1, FirstOf(hostPort, {":"}) - 1)
  IN IF \/ colon > Len(s)
        \/ colon = 1
        \/ ~IsLetter(s[1])
        \/ \E k \in 1..(colon - 1) :
             ~(IsLetter(s[k]) \/ IsDigit(s[k]) \/ s[k] \in {"+", "-", "."})
     THEN Throw
     ELSE IF ~hasAuthority THEN Ret([protocol |-> scheme \o <<":">>, hostname |-> <<>>])
     ELSE IF special /\ (host = <<>> \/ \E k \in DOMAIN host : host[k] = " ") THEN Throw
     ELSE Ret([protocol |-> scheme \o <<":">>,
               hostname |-> IF special THEN toLowerCase(host) ELSE host])

\* new URL(x) for any value x: x is converted to a string first, and the
\* string of undefined, null, a number, a boolean or a plain object has no
\* scheme.
NewURL(x) == IF IsString(x) THEN ParseURL(x.v) ELSE Throw

\* String(x), as a template literal converts an interpolated value.
ToStringJS(x) ==
  CASE x.t = "string" -> x.v
    [] x.t = "undefined" -> <<"u", "n", "d", "e", "f", "i", "n", "e", "d">>
    [] x.t = "null" -> <<"n", "u", "l", "l">>
    [] x.t = "number" -> ToDecimal(x.v)
    [] x.t = "boolean" -> IF x.v THEN <<"t", "r", "u", "e">> ELSE <<"f", "a", "l", "s", "e">>
    [] OTHER -> <<"[", "o", "b", "j", "e", "c", "t", " ", "O", "b", "j", "e", "c", "t", "]">>

\* env[key]: the binding's value, undefined when there is none.
EnvGet(e, key) == IF key \in DOMAIN e THEN Str(e[key]) ELSE Undef

SENDGRID_API_KEY == <<"S", "E", "N", "D", "G", "R", "I", "D", "_", "A", "P", "I", "_", "K", "E", "Y">>

FROM_EMAIL == <<"F", "R", "O", "M", "_", "E", "M", "A", "I", "L">>

\* A variant of the registry key that upper-cases the name and keeps its
\* hyphens: what C11_NormalizationEquivalence rules out.
envKeyUpperOnly(appName) ==
  <<"A", "P", "P", "_">> \o toUpperCase(appName) \o <<"_", "E", "M", "A", "I", "L">>

\* The registry key of an application name: APP_<NORMALIZED>_EMAIL.
envKey(appName) ==
  <<"A", "P", "P", "_">> \o ReplaceChar(toUpperCase(appName), "-", "_") \o <<"_", "E", "M", "A", "I", "L">>

\* A variant of the lookup that falls back to the sender's address for an
\* application without a binding: what C12_KnownExactlyWhenRecipient rules
\* out.
getRecipientEmailOrSender(appName, e) ==
  IF envKey(appName) \in DOMAIN e THEN Str(e[envKey(appName)]) ELSE EnvGet(e, FROM_EMAIL)

getRecipientEmail(appName, e) == EnvGet(e, envKey(appName))

mail_box == <<"m", "a", "i", "l", "_", "b", "o", "x">>

mail_box_wallet == <<"m", "a", "i", "l", "_", "b", "o", "x", "_", "w", "a", "l", "l", "e", "t">>

\* A variant of the inference that looks for the marker anywhere in the URI
\* instead of in the host of the parsed URL: what C15_InferenceRules rules
\* out.
inferAppNameBySubstring(documentUri) ==
  IF ~IsString(documentUri) THEN Undef
  ELSE IF Includes(documentUri.v, <<"s", "i", "g", "n", "i", "c", ".", "e", "m", "a", "i", "l">>) THEN Str(mail_box)
  ELSE IF Includes(toLowerCase(documentUri.v), <<"c", "h", "r", "o", "m", "e", "-", "e", "x", "t", "e", "n", "s", "i", "o", "n", ":">>) THEN Str(mail_box_wallet)
  ELSE Undef

inferAppName(documentUri) ==
  LET url == NewURL(documentUri)
  IN IF url.threw THEN Undef
     ELSE IF Includes(url.v.hostname, <<"s", "i", "g", "n", "i", "c", ".", "e", "m", "a", "i", "l">>) THEN Str(mail_box)
     ELSE IF url.v.protocol = <<"c", "h", "r", "o", "m", "e", "-", "e", "x", "t", "e", "n", "s", "i", "o", "n", ":">> THEN Str(mail_box_wallet)
     ELSE Undef

extractHostname(urlString) ==
  LET url == NewURL(urlString)
  IN IF url.threw THEN urlString ELSE Str(url.v.hostname)

isNonEmptyString(value) == IsString(value) /\ Len(value.v) > 0

\* VALID_ALERT_TYPES.includes(x)
IsValidAlertType(x) == \E k \in DOMAIN VALID_ALERT_TYPES : VALID_ALERT_TYPES[k] = x.v

\* validateAlertPayload(payload): the error message, or null for a valid
\* payload (valid |-> TRUE); reading a property of a null payload raises.
Invalid(message) == Ret([valid |-> FALSE, error |-> message])

validateAlertPayload(p) ==
  IF GetProp(p, "appName").threw THEN Throw
  ELSE IF ~isNonEmptyString(GetProp(p, "appName").v)
    THEN Invalid("appName must be a non-empty string")
  ELSE IF ~isNonEmptyString(GetProp(p, "type").v) \/ ~IsValidAlertType(GetProp(p, "type").v)
    THEN Invalid("type must be one of: unauthorized_fetch, unauthorized_xhr, unauthorized_websocket, csp_violation")
  ELSE IF ~IsString(GetProp(p, "url").v) THEN Invalid("url must be a string")
  ELSE IF ~IsString(GetProp(p, "hostname").v) THEN Invalid("hostname must be a string")
  ELSE IF ~IsNumber(GetProp(p, "timestamp").v) THEN Invalid("timestamp must be a number")
  ELSE Ret([valid |-> TRUE])

(***************************************************************************)
(* The handlers, one await-delimited segment at a time                     *)
(***************************************************************************)
\* What a segment of a handler ends with: a response, a suspension on the
\* outbound call, or an exception that reaches the catch block of fetch.
\* st lists the stages the segment went through, in order.
Respond(r, st) == [kind |-> "respond", resp |-> r, stages |-> st \o <<"respond">>]

Await(call, st) == [kind |-> "await", call |-> call, stages |-> st]

Raise(st) == [kind |-> "throw", stages |-> st]

\* A response given after sendEmail returned false without a call.
RespondUnsent(r, st) ==
  [kind |-> "unsent", resp |-> r, stages |-> st \o <<"respond">>]

\* The result of request.json() for a body that is not JSON.
SyntaxError == [t |-> "SyntaxError"]

NotRead == [t |-> "unread"]

\* A variant of the catch block that answers in plain text: what
\* C7_ParseFailureIs500 rules out.
InternalErrorText == Response(TextBody("Internal error"), 500, corsHeaders)

\* The catch block of fetch.
InternalError ==
  Response(JsonBody([success |-> FALSE, error |-> "Internal error"]), 500, jsonHeaders)

ErrorResponse(message, status) ==
  Response(JsonBody([success |-> FALSE, error |-> message]), status, jsonHeaders)

\* The response of handleSecurityAlert once sendEmail has returned emailSent.
AlertResponse(emailSent) ==
  Response(JsonBody([success |-> emailSent]), IF emailSent THEN 200 ELSE 500, jsonHeaders)

\* A variant of handleCspReport that answers as handleSecurityAlert does for
\* an unknown application: what C2_UnknownAppAsymmetry rules out.
CspResponseUnknownApp400 == ErrorResponse("Unknown app", 400)

\* The response of handleCspReport on each of its return paths.
CspResponse == Response(NoBody, 204, corsHeaders)

\* sendEmail up to its await: without a credential it returns false and
\* makes no call; otherwise it issues the POST to the provider.
sendEmailStart(e, options) ==
  IF ~Truthy(EnvGet(e, SENDGRID_API_KEY)) THEN Ret(FALSE)
  ELSE [threw |-> FALSE,
        call |-> [to |-> options.to,
                  from |-> EnvGet(e, FROM_EMAIL),
                  authorization |-> <<"B", "e", "a", "r", "e", "r", " ">> \o e[SENDGRID_API_KEY],
                  subject |-> options.subject,
                  html |-> options.html]]

\* A variant of the end of sendEmail that returns true without looking at
\* response.ok: what C24_ResponseAfterOutcome rules out.
sendEmailFinishUnchecked(o) ==
  IF o \in {"ok", "status"} THEN Ret(TRUE) ELSE Throw

\* sendEmail after its await.  o is what the outbound fetch settled with: a
\* response with a success status ("ok"), a response with another status
\* ("status"), or a rejection on a network failure ("rejected"), which the
\* function does not catch.
sendEmailFinish(o) ==
  CASE o = "ok" -> Ret(TRUE)
    [] o = "status" -> Ret(FALSE)
    [] OTHER -> Throw

\* The fetch entry point up to the handler's first await.
\* contentLength && parseInt(contentLength, 10) > MAX_REQUEST_BODY_SIZE, on
\* request.headers.get('Content-Length'); a comparison with NaN is false.
ExceedsLimit(contentLength) ==
  /\ Truthy(contentLength)
  /\ "v" \in DOMAIN parseInt(contentLength.v)
  /\ parseInt(contentLength.v).v > MAX_REQUEST_BODY_SIZE

\* A variant of the route test without the /security-alert alias: what
\* C8_RoutingTableWithSizeGuard rules out.
IsAlertPathOnly(path) == path = "/alert"

\* path === '/alert' || path === '/security-alert'
IsAlertPath(path) == path = "/alert" \/ path = "/security-alert"

IsCspPath(path) == path = "/csp-report"

\* A variant of the entry point that routes on the path before it looks at
\* the declared body size: what C23_StagesInCodeOrder rules out.
fetchEntryRoutingFirst(r) ==
  IF r.method = "OPTIONS" THEN Respond(Response(NoBody, 200, corsHeaders), <<"method">>)
  ELSE IF r.method # "POST"
    THEN Respond(Response(TextBody("Method not allowed"), 405, corsHeaders), <<"method">>)
  ELSE IF ~IsAlertPath(r.path) /\ ~IsCspPath(r.path)
    THEN Respond(Response(TextBody("Not found"), 404, corsHeaders), <<"method", "route">>)
  ELSE IF ExceedsLimit(r.contentLength)
    THEN Respond(ErrorResponse("Payload too large", 413), <<"method", "route", "size">>)
  ELSE [kind |-> "json",
        handler |-> IF IsAlertPath(r.path) THEN "handleSecurityAlert" ELSE "handleCspReport",
        stages |-> <<"method", "route", "size">>]

fetchEntry(r) ==
  IF r.method = "OPTIONS" THEN Respond(Response(NoBody, 200, corsHeaders), <<"method">>)
  ELSE IF r.method # "POST"
    THEN Respond(Response(TextBody("Method not allowed"), 405, corsHeaders), <<"method">>)
  ELSE IF ExceedsLimit(r.contentLength)
    THEN Respond(ErrorResponse("Payload too large", 413), <<"method", "size">>)
  ELSE IF IsAlertPath(r.path)
    THEN [kind |-> "json", handler |-> "handleSecurityAlert",
          stages |-> <<"method", "size", "route">>]
  ELSE IF IsCspPath(r.path)
    THEN [kind |-> "json", handler |-> "handleCspReport",
          stages |-> <<"method", "size", "route">>]
  ELSE Respond(Response(TextBody("Not found"), 404, corsHeaders), <<"method", "size", "route">>)

\* A variant of the tail that keeps the recipients of the calls in flight in
\* a table shared by all requests and skips the send when the recipient is
\* already there: what C21_RequestIndependence rules out.
RenderAndSendOncePerRecipient(e, to, subject, alert, st, noCredential) ==
  LET html == formatSecurityAlertEmail(alert)
      start == sendEmailStart(e, [to |-> to, subject |-> subject, html |-> html.v])
      inFlight == \E j \in DOMAIN sent : \E k \in DOMAIN sent[j] : sent[j][k].to = to
  IN IF html.threw THEN Raise(st \o <<"render">>)
     ELSE IF "call" \in DOMAIN start /\ ~inFlight
       THEN Await(start.call, st \o <<"render", "send">>)
     ELSE RespondUnsent(noCredential, st \o <<"render", "send">>)

\* The tail shared by both handlers: render, then sendEmail.  The email
\* options are evaluated before sendEmail is entered, the rendering included.
RenderAndSend(e, to, subject, alert, st, noCredential) ==
  LET html == formatSecurityAlertEmail(alert)
      start == sendEmailStart(e, [to |-> to, subject |-> subject, html |-> html.v])
  IN IF html.threw THEN Raise(st \o <<"render">>)
     ELSE IF "call" \in DOMAIN start THEN Await(start.call, st \o <<"render", "send">>)
     ELSE RespondUnsent(noCredential, st \o <<"render", "send">>)

\* handleSecurityAlert from the settling of request.json() to its next await
\* or its return.
handleSecurityAlert(body, e) ==
  LET validation == validateAlertPayload(body)
      alert == body.f
      recipient == getRecipientEmail(alert.appName.v, e)
  IN IF body = SyntaxError THEN Raise(<<"parse">>)
     ELSE IF validation.threw THEN Raise(<<"parse", "validate">>)
     ELSE IF ~validation.v.valid
       THEN Respond(ErrorResponse(validation.v.error, 400), <<"parse", "validate">>)
     ELSE IF ~Truthy(recipient)
       THEN Respond(ErrorResponse("Unknown app", 400), <<"parse", "validate", "lookup">>)
     ELSE RenderAndSend(e, recipient.v,
                        <<"[", "S", "e", "c", "u", "r", "i", "t", "y", " ", "A", "l", "e", "r", "t", "]", " ">> \o alert.appName.v \o <<":", " ">> \o alert.type.v,
                        alert, <<"parse", "validate", "lookup">>, AlertResponse(FALSE))

\* Date.now(), in days: a time inside the range of Date.
DateNow == Num(20000)

\* A variant of the choice of the application name that prefers the inferred
\* name to the query parameter: what C13_ExplicitNameElseInferred rules out.
appNameInferredFirst(q, documentUri) ==
  IF ~documentUri.threw /\ Truthy(inferAppName(documentUri.v))
  THEN inferAppName(documentUri.v)
  ELSE q

\* url.searchParams.get('appName') || inferAppName(cspData['document-uri']),
\* documentUri being the outcome of reading cspData['document-uri'].
appNameOf(q, documentUri) == IF Truthy(q) THEN q ELSE inferAppName(documentUri.v)

\* handleCspReport from the settling of request.json() to its next await or
\* its return.  q is url.searchParams.get('appName').
handleCspReport(body, q, e) ==
  LET cspData == GetProp(body, "csp-report")
      documentUri == GetProp(cspData.v, "document-uri")
      appName == appNameOf(q, documentUri)
      recipient == getRecipientEmail(appName.v, e)
      blockedUri == GetProp(cspData.v, "blocked-uri")
      prop(k) == GetProp(cspData.v, k).v
      alert == [appName |-> appName,
                type |-> Str(VALID_ALERT_TYPES[4]),
                url |-> blockedUri.v,
                hostname |-> extractHostname(blockedUri.v),
                timestamp |-> DateNow,
                stack |-> Undef,
                appVersion |-> Undef,
                userAgent |-> Undef,
                metadata |-> Dict(<< <<<<"d", "o", "c", "u", "m", "e", "n", "t", "U", "r", "i">>, prop("document-uri")>>,
                                     <<<<"v", "i", "o", "l", "a", "t", "e", "d", "D", "i", "r", "e", "c", "t", "i", "v", "e">>, prop("violated-directive")>>,
                                     <<<<"o", "r", "i", "g", "i", "n", "a", "l", "P", "o", "l", "i", "c", "y">>, prop("original-policy")>>,
                                     <<<<"s", "o", "u", "r", "c", "e", "F", "i", "l", "e">>, prop("source-file")>>,
                                     <<<<"l", "i", "n", "e", "N", "u", "m", "b", "e", "r">>, prop("line-number")>> >>)]
  IN IF body = SyntaxError THEN Raise(<<"parse">>)
     ELSE IF cspData.threw THEN Raise(<<"parse">>)
     ELSE IF ~Truthy(q) /\ documentUri.threw THEN Raise(<<"parse">>)
     ELSE IF ~Truthy(appName) THEN Respond(CspResponse, <<"parse">>)
     ELSE IF ~Truthy(recipient) THEN Respond(CspResponse, <<"parse", "lookup">>)
     ELSE IF blockedUri.threw THEN Raise(<<"parse", "lookup">>)
     ELSE RenderAndSend(e, recipient.v,
                        <<"[", "C", "S", "P", " ", "V", "i", "o", "l", "a", "t", "i", "o", "n", "]", " ">> \o appName.v \o <<":", " ">>
                          \o ToStringJS(prop("violated-directive")),
                        alert, <<"parse", "lookup">>, CspResponse)

(***************************************************************************)
(* Environments and requests                                               *)
(***************************************************************************)
APP_MAIL_BOX_EMAIL == <<"A", "P", "P", "_", "M", "A", "I", "L", "_", "B", "O", "X", "_", "E", "M", "A", "I", "L">>

APP_MAIL_BOX_WALLET_EMAIL == <<"A", "P", "P", "_", "M", "A", "I", "L", "_", "B", "O", "X", "_", "W", "A", "L", "L", "E", "T", "_", "E", "M", "A", "I", "L">>

\* The bindings of the worker's tests, and three variations: no credential,
\* a registry with one application, and a registry entry that is empty.
TestEnv ==
  (SENDGRID_API_KEY :> <<"t", "e", "s", "t", "-", "a", "p", "i", "-", "k", "e", "y">>) @@ (FROM_EMAIL :> <<"s", "e", "c", "u", "r", "i", "t", "y", "@", "t", "e", "s", "t", ".", "c", "o", "m">>)
  @@ (APP_MAIL_BOX_EMAIL :> <<"m", "a", "i", "l", "b", "o", "x", "@", "t", "e", "s", "t", ".", "c", "o", "m">>) @@ (APP_MAIL_BOX_WALLET_EMAIL :> <<"w", "a", "l", "l", "e", "t", "@", "t", "e", "s", "t", ".", "c", "o", "m">>)

Envs ==
  { TestEnv,
    [TestEnv EXCEPT ![SENDGRID_API_KEY] = <<>>],
    (SENDGRID_API_KEY :> <<"t", "e", "s", "t", "-", "a", "p", "i", "-", "k", "e", "y">>) @@ (FROM_EMAIL :> <<"s", "e", "c", "u", "r", "i", "t", "y", "@", "t", "e", "s", "t", ".", "c", "o", "m">>)
      @@ (APP_MAIL_BOX_EMAIL :> <<"m", "a", "i", "l", "b", "o", "x", "@", "t", "e", "s", "t", ".", "c", "o", "m">>),
    [TestEnv EXCEPT ![APP_MAIL_BOX_WALLET_EMAIL] = <<>>] }

\* How far around the ceiling the body sizes of the requests go.
SizeMargin == 1

BodySizes ==
  {256} \cup ((MAX_REQUEST_BODY_SIZE - SizeMargin)..(MAX_REQUEST_BODY_SIZE + SizeMargin))

Methods == {"OPTIONS", "POST", "GET"}

Paths == {"/alert", "/security-alert", "/csp-report", "/unknown"}

ghost_app == <<"g", "h", "o", "s", "t", "_", "a", "p", "p">>

\* url.searchParams.get('appName') of the request: null without the parameter.
AppNameParams == {Null, Str(<<>>), Str(mail_box), Str(ghost_app)}

\* A request as fetch receives it.  The Content-Length header, when the
\* client sends one, states the size of the body; a body sent with chunked
\* transfer encoding comes without it.
Requests ==
  { [method |-> m, path |-> p, appNameParam |-> q, bodySize |-> n, contentLength |-> cl] :
      m \in Methods, p \in Paths, q \in AppNameParams, n \in BodySizes,
      cl \in {Null} \cup {Str(ToDecimal(k)) : k \in BodySizes} }

WellFormed(r) ==
  /\ r.contentLength \in {Null, Str(ToDecimal(r.bodySize))}
  /\ r.path # "/csp-report" => r.appNameParam = Null
  /\ r.method # "POST" => r.bodySize = 256 /\ r.contentLength = Null

NoRequest == [method |-> "none"]

NoResponse == [status |-> 0]

AppNameInputs ==
  {Undef, Str(<<>>), Num(1), Str(mail_box), Str(<<"M", "a", "i", "l", "-", "B", "o", "x">>), Str(ghost_app)}

TypeInputs ==
  {Undef, Str(<<"b", "o", "g", "u", "s">>), Str(VALID_ALERT_TYPES[1]), Str(VALID_ALERT_TYPES[4])}

UrlInputs == {Str(<<"h", "t", "t", "p", "s", ":", "/", "/", "e", "v", "i", "l", ".", "c", "o", "m", "/", "?", "q", "=", "<", "b", ">", "&", "x", "=", "'", "1", "'">>), Num(1)}

HostnameInputs == {Str(<<"e", "v", "i", "l", ".", "c", "o", "m">>), Undef}

\* Timestamps in days: one inside and one outside the range of Date, and one
\* that is not a number.
TimestampInputs == {Num(19675), Num(MaxTimeValue + 1), Str(<<"n", "o", "w">>)}

OptionalInputs ==
  { [stack |-> Undef, appVersion |-> Undef, userAgent |-> Undef, metadata |-> Undef],
    [stack |-> Str(<<"a", "t", " ", "<", "f", ">", " ", "(", "a", ".", "j", "s", ":", "1", ")">>), appVersion |-> Str(<<"1", ".", "2", ".", "3">>),
     userAgent |-> Str(<<"M", "o", "z", "i", "l", "l", "a", "/", "5", ".", "0", " ", "\"", "X", "\"">>),
     metadata |-> Dict(<< <<<<"<", "k", ">">>, Str(<<"a", "&", "b">>)>> >>)],
    [stack |-> Undef, appVersion |-> Num(2), userAgent |-> Undef, metadata |-> Undef],
    [stack |-> Null, appVersion |-> Str(<<>>), userAgent |-> Undef,
     metadata |-> Str(<<"a", "&", "b">>)] }

AlertPayloads ==
  { Obj([appName |-> a, type |-> ty, url |-> u, hostname |-> h, timestamp |-> ts,
         stack |-> o.stack, appVersion |-> o.appVersion, userAgent |-> o.userAgent,
         metadata |-> o.metadata]) :
      a \in AppNameInputs, ty \in TypeInputs, u \in UrlInputs, h \in HostnameInputs,
      ts \in TimestampInputs, o \in OptionalInputs }

\* What request.json() can settle with on the alert paths.
AlertBodies == {SyntaxError, Null, Num(7)} \cup AlertPayloads

DocumentUriInputs ==
  { Undef,
    Str(<<"h", "t", "t", "p", "s", ":", "/", "/", "a", "p", "p", ".", "s", "i", "g", "n", "i", "c", ".", "e", "m", "a", "i", "l", "/", "i", "n", "b", "o", "x">>),
    Str(<<"c", "h", "r", "o", "m", "e", "-", "e", "x", "t", "e", "n", "s", "i", "o", "n", ":", "/", "/", "a", "b", "c", "d", "1", "2", "3", "4", "/", "p", "o", "p", "u", "p", ".", "h", "t", "m", "l">>),
    Str(<<"h", "t", "t", "p", "s", ":", "/", "/", "u", "n", "k", "n", "o", "w", "n", ".", "c", "o", "m", "/", "p", "a", "g", "e">>),
    Str(<<"n", "o", "t", " ", "a", " ", "u", "r", "l">>) }

BlockedUriInputs == {Str(<<"h", "t", "t", "p", "s", ":", "/", "/", "e", "v", "i", "l", ".", "c", "o", "m", "/", "s", "c", "r", "i", "p", "t", ".", "j", "s">>), Str(<<"i", "n", "l", "i", "n", "e">>), Undef}

CspReports ==
  { Obj(("document-uri" :> d) @@ ("violated-directive" :> v) @@ ("blocked-uri" :> b)
        @@ ("original-policy" :> x.policy) @@ ("source-file" :> x.file)
        @@ ("line-number" :> x.line)) :
      d \in DocumentUriInputs, v \in {Str(<<"s", "c", "r", "i", "p", "t", "-", "s", "r", "c">>), Undef}, b \in BlockedUriInputs,
      x \in { [policy |-> Undef, file |-> Undef, line |-> Undef],
              [policy |-> Str(<<"d", "e", "f", "a", "u", "l", "t", "-", "s", "r", "c", " ", "'", "s", "e", "l", "f", "'">>), file |-> Str(<<"h", "t", "t", "p", "s", ":", "/", "/", "a", "p", "p", ".", "s", "i", "g", "n", "i", "c", ".", "e", "m", "a", "i", "l", "/", "m", "a", "i", "n", ".", "j", "s">>), line |-> Num(10)] } }

\* What request.json() can settle with on /csp-report.
CspBodies ==
  {SyntaxError, Null, Num(7), Obj([x \in {} |-> Undef]), Obj("csp-report" :> Null)}
  \cup {Obj("csp-report" :> c) : c \in CspReports}

\* What the outbound call to the provider can settle with.
SendOutcomes == {"ok", "status", "rejected"}

(***************************************************************************)
(* The state machine                                                       *)
(***************************************************************************)
\* The request contexts the specification follows.
Slots == {1}

\* No function of the worker is being applied on its own.
NoCall == [fn |-> "none"]

\* No request has been received.
Idle ==
  /\ req = [i \in Slots |-> NoRequest]
  /\ pc = [i \in Slots |-> "idle"]
  /\ handler = [i \in Slots |-> "none"]
  /\ payload = [i \in Slots |-> NotRead]
  /\ sent = [i \in Slots |-> <<>>]
  /\ outcome = [i \in Slots |-> "none"]
  /\ emailResult = [i \in Slots |-> "none"]
  /\ resp = [i \in Slots |-> NoResponse]
  /\ stages = [i \in Slots |-> <<>>]

Init ==
  /\ env \in Envs
  /\ applied = NoCall
  /\ req = [i \in Slots |-> NoRequest]
  /\ pc = [i \in Slots |-> "idle"]
  /\ handler = [i \in Slots |-> "none"]
  /\ payload = [i \in Slots |-> NotRead]
  /\ sent = [i \in Slots |-> <<>>]
  /\ outcome = [i \in Slots |-> "none"]
  /\ emailResult = [i \in Slots |-> "none"]
  /\ resp = [i \in Slots |-> NoResponse]
  /\ stages = [i \in Slots |-> <<>>]

\* A request arrives and fetch runs up to its response or to the handler's
\* await of request.json().
Fetch(i) ==
  /\ pc[i] = "idle"
  /\ \E r \in Requests :
       /\ WellFormed(r)
       /\ LET seg == fetchEntry(r)
          IN /\ req' = [req EXCEPT ![i] = r]
             /\ stages' = [stages EXCEPT ![i] = seg.stages]
             /\ handler' = [handler EXCEPT ![i] =
                              IF seg.kind = "json" THEN seg.handler ELSE "none"]
             /\ pc' = [pc EXCEPT ![i] = IF seg.kind = "json" THEN "json" ELSE "done"]
             /\ resp' = [resp EXCEPT ![i] = IF seg.kind = "json" THEN NoResponse ELSE seg.resp]
  /\ UNCHANGED <<env, payload, sent, outcome, emailResult, applied>>

\* What a segment of a handler leaves behind; an exception ends in the catch
\* block of fetch.
Settle(i, seg) ==
  /\ stages' = [stages EXCEPT ![i] =
                  @ \o seg.stages \o (IF seg.kind = "throw" THEN <<"respond">> ELSE <<>>)]
  /\ pc' = [pc EXCEPT ![i] = IF seg.kind = "await" THEN "send" ELSE "done"]
  /\ resp' = [resp EXCEPT ![i] =
                CASE seg.kind \in {"respond", "unsent"} -> seg.resp
                  [] seg.kind = "throw" -> InternalError
                  [] OTHER -> NoResponse]
  /\ emailResult' = [emailResult EXCEPT ![i] = IF seg.kind = "unsent" THEN "false" ELSE @]
  /\ sent' = [sent EXCEPT ![i] = IF seg.kind = "await" THEN Append(@, seg.call) ELSE @]

\* A variant in which the handler binds the sender's address to the registry
\* key of an application it does not know: what C26_EnvironmentOnlyRead rules
\* out.
JsonSettledRegistering(i) ==
  /\ pc[i] = "json"
  /\ \E body \in (IF handler[i] = "handleCspReport" THEN CspBodies ELSE AlertBodies) :
       /\ payload' = [payload EXCEPT ![i] = body]
       /\ Settle(i, IF handler[i] = "handleCspReport"
                    THEN handleCspReport(body, req[i].appNameParam, env)
                    ELSE handleSecurityAlert(body, env))
       /\ env' = IF /\ handler[i] = "handleSecurityAlert"
                    /\ body \in AlertPayloads
                    /\ IsString(body.f.appName)
                    /\ envKey(body.f.appName.v) \notin DOMAIN env
                 THEN (envKey(body.f.appName.v) :> env[FROM_EMAIL]) @@ env
                 ELSE env
  /\ UNCHANGED <<req, handler, outcome, applied>>

\* request.json() settles, and the handler runs on to its response or to the
\* await of the outbound call.
JsonSettled(i) ==
  /\ pc[i] = "json"
  /\ \E body \in (IF handler[i] = "handleCspReport" THEN CspBodies ELSE AlertBodies) :
       /\ payload' = [payload EXCEPT ![i] = body]
       /\ Settle(i, IF handler[i] = "handleCspReport"
                    THEN handleCspReport(body, req[i].appNameParam, env)
                    ELSE handleSecurityAlert(body, env))
  /\ UNCHANGED <<env, req, handler, outcome, applied>>

\* A variant in which a call that fails is made again instead of being
\* answered: what C25_OneResponseNoRetry rules out.
SendSettledWithRetry(i) ==
  /\ pc[i] = "send"
  /\ \E o \in SendOutcomes :
       /\ outcome' = [outcome EXCEPT ![i] = o]
       /\ LET result == sendEmailFinish(o)
              failed == result.threw \/ ~result.v
          IN /\ emailResult' = [emailResult EXCEPT ![i] =
                                IF failed THEN "false" ELSE "true"]
             /\ resp' = [resp EXCEPT ![i] =
                           IF failed THEN NoResponse
                           ELSE IF handler[i] = "handleCspReport" THEN CspResponse
                           ELSE AlertResponse(TRUE)]
             /\ pc' = [pc EXCEPT ![i] = IF failed THEN "send" ELSE "done"]
             /\ sent' = [sent EXCEPT ![i] =
                           IF failed /\ Len(@) < 2 THEN Append(@, @[1]) ELSE @]
             /\ stages' = [stages EXCEPT ![i] = IF failed THEN @ ELSE @ \o <<"respond">>]
  /\ UNCHANGED <<env, req, handler, payload, applied>>

\* The outbound call settles, sendEmail returns or raises, and the handler
\* responds.
SendSettled(i) ==
  /\ pc[i] = "send"
  /\ \E o \in SendOutcomes :
       /\ outcome' = [outcome EXCEPT ![i] = o]
       /\ LET result == sendEmailFinish(o)
          IN /\ emailResult' = [emailResult EXCEPT ![i] =
                                IF result.threw THEN "raised"
                                ELSE IF result.v THEN "true" ELSE "false"]
             /\ resp' = [resp EXCEPT ![i] =
                           IF result.threw THEN InternalError
                           ELSE IF handler[i] = "handleCspReport" THEN CspResponse
                           ELSE AlertResponse(result.v)]
  /\ pc' = [pc EXCEPT ![i] = "done"]
  /\ stages' = [stages EXCEPT ![i] = @ \o <<"respond">>]
  /\ UNCHANGED <<env, req, handler, payload, sent, applied>>

\* The response has been delivered and the request's context is dropped.
Release(i) ==
  /\ pc[i] = "done"
  /\ req' = [req EXCEPT ![i] = NoRequest]
  /\ pc' = [pc EXCEPT ![i] = "idle"]
  /\ handler' = [handler EXCEPT ![i] = "none"]
  /\ payload' = [payload EXCEPT ![i] = NotRead]
  /\ sent' = [sent EXCEPT ![i] = <<>>]
  /\ outcome' = [outcome EXCEPT ![i] = "none"]
  /\ emailResult' = [emailResult EXCEPT ![i] = "none"]
  /\ resp' = [resp EXCEPT ![i] = NoResponse]
  /\ stages' = [stages EXCEPT ![i] = <<>>]
  /\ UNCHANGED <<env, applied>>

Next == \E i \in Slots : Fetch(i) \/ JsonSettled(i) \/ SendSettled(i) \/ Release(i)

Spec == Init /\ [][Next]_vars

\* The worker when what a handler awaits settles: the runtime delivers the
\* request body, and the outbound call ends with a response or a failure.
\* Requests keep arriving or not, and a context is dropped or not.
Settling ==
  /\ Spec
  /\ \A i \in Slots : WF_vars(JsonSettled(i)) /\ WF_vars(SendSettled(i))

(***************************************************************************)
(* Requests processed concurrently                                         *)
(***************************************************************************)
\* How many requests the runtime has in progress at once.
MaxConcurrent == 2

Contexts == 1..MaxConcurrent

\* Requests that pass every check: alerts and a CSP report for registered
\* applications, and an alert for an unregistered one.
ConcurrentRequests ==
  { [method |-> "POST", path |-> "/alert", appNameParam |-> Null,
     bodySize |-> 256, contentLength |-> Str(ToDecimal(256))],
    [method |-> "POST", path |-> "/csp-report", appNameParam |-> Str(mail_box),
     bodySize |-> 256, contentLength |-> Null] }

ConcurrentAlert(a, o) ==
  Obj([appName |-> Str(a), type |-> Str(VALID_ALERT_TYPES[1]),
       url |-> Str(<<"h", "t", "t", "p", "s", ":", "/", "/", "e", "v", "i", "l", ".", "c", "o", "m", "/", "?", "q", "=", "<", "b", ">", "&", "x", "=", "'", "1", "'">>),
       hostname |-> Str(<<"e", "v", "i", "l", ".", "c", "o", "m">>), timestamp |-> Num(19675),
       stack |-> o.stack, appVersion |-> o.appVersion, userAgent |-> o.userAgent,
       metadata |-> o.metadata])

NoOptionals == [stack |-> Undef, appVersion |-> Undef, userAgent |-> Undef, metadata |-> Undef]

ConcurrentBodies ==
  { ConcurrentAlert(mail_box, NoOptionals),
    ConcurrentAlert(<<"M", "a", "i", "l", "-", "B", "o", "x">>, NoOptionals),
    ConcurrentAlert(ghost_app, NoOptionals),
    Obj("csp-report" :>
          Obj(("document-uri" :> Str(<<"h", "t", "t", "p", "s", ":", "/", "/", "a", "p", "p", ".", "s", "i", "g", "n", "i", "c", ".", "e", "m", "a", "i", "l", "/", "i", "n", "b", "o", "x">>))
              @@ ("violated-directive" :> Str(<<"s", "c", "r", "i", "p", "t", "-", "s", "r", "c">>))
              @@ ("blocked-uri" :> Str(<<"h", "t", "t", "p", "s", ":", "/", "/", "e", "v", "i", "l", ".", "c", "o", "m", "/", "s", "c", "r", "i", "p", "t", ".", "j", "s">>))
              @@ ("original-policy" :> Undef) @@ ("source-file" :> Undef)
              @@ ("line-number" :> Undef))) }

ConcurrentInit ==
  /\ env = TestEnv
  /\ applied = NoCall
  /\ req = [i \in Contexts |-> NoRequest]
  /\ pc = [i \in Contexts |-> "idle"]
  /\ handler = [i \in Contexts |-> "none"]
  /\ payload = [i \in Contexts |-> NotRead]
  /\ sent = [i \in Contexts |-> <<>>]
  /\ outcome = [i \in Contexts |-> "none"]
  /\ emailResult = [i \in Contexts |-> "none"]
  /\ resp = [i \in Contexts |-> NoResponse]
  /\ stages = [i \in Contexts |-> <<>>]

\* The handlers of the requests in progress run interleaved at their awaits.
ConcurrentNext ==
  \E i \in Contexts :
    \/ Fetch(i) /\ req'[i] \in ConcurrentRequests
    \/ JsonSettled(i) /\ payload'[i] \in ConcurrentBodies
    \/ SendSettled(i)
    \/ Release(i)

Concurrent == ConcurrentInit /\ [][ConcurrentNext]_vars

(***************************************************************************)
(* The functions of the worker applied on their own                        *)
(***************************************************************************)
\* The longest application name built from NameChars.
MaxNameLen == 2

NameChars == {"m", "M", "-", "_"}

\* The strings of at most n characters of chars.
RECURSIVE StringsUpTo(_, _)
StringsUpTo(chars, n) ==
  IF n = 0 THEN {<<>>}
  ELSE LET shorter == StringsUpTo(chars, n - 1)
       IN shorter \cup {Append(s, c) : s \in shorter, c \in chars}

\* The spellings the tests of the worker post.
TestNames ==
  { <<"m", "a", "i", "l", "_", "b", "o", "x">>, <<"m", "a", "i", "l", "-", "b", "o", "x">>, <<"M", "a", "i", "l", "_", "B", "o", "x">>, <<"M", "A", "I", "L", "-", "B", "O", "X">>, <<"m", "a", "i", "l", "-", "b", "o", "x", "-", "w", "a", "l", "l", "e", "t">> }

AppNames == StringsUpTo(NameChars, MaxNameLen) \cup TestNames

\* Registries: the one of the tests, and bindings whose keys are normalized,
\* lower-case, hyphenated, or absent.
Registries ==
  { TestEnv,
    (<<"A", "P", "P", "_", "M", "_", "E", "M", "A", "I", "L">> :> <<"m", "@", "t", "e", "s", "t", ".", "c", "o", "m">>) @@ (<<"A", "P", "P", "_", "M", "_", "_", "E", "M", "A", "I", "L">> :> <<"m", "_", "@", "t", "e", "s", "t", ".", "c", "o", "m">>),
    (<<"A", "P", "P", "_", "M", "M", "_", "E", "M", "A", "I", "L">> :> <<"m", "m", "@", "t", "e", "s", "t", ".", "c", "o", "m">>) @@ (<<"A", "P", "P", "_", "_", "_", "E", "M", "A", "I", "L">> :> <<"u", "@", "t", "e", "s", "t", ".", "c", "o", "m">>),
    (<<"A", "P", "P", "_", "m", "_", "E", "M", "A", "I", "L">> :> <<"l", "o", "w", "e", "r", "@", "t", "e", "s", "t", ".", "c", "o", "m">>) @@ (<<"A", "P", "P", "_", "M", "-", "_", "E", "M", "A", "I", "L">> :> <<"h", "y", "p", "h", "e", "n", "@", "t", "e", "s", "t", ".", "c", "o", "m">>),
    (FROM_EMAIL :> <<"s", "e", "c", "u", "r", "i", "t", "y", "@", "t", "e", "s", "t", ".", "c", "o", "m">>) }

\* getRecipientEmail applied to two names under one registry.
RecipientCalls ==
  { [fn |-> "getRecipientEmail", a |-> a, b |-> b, done |-> FALSE, result |-> <<>>] :
      a \in AppNames, b \in AppNames }

ApplyGetRecipientEmail ==
  /\ applied.fn = "getRecipientEmail" /\ ~applied.done
  /\ applied' = [applied EXCEPT !.done = TRUE,
                                !.result = << getRecipientEmail(applied.a, env),
                                              getRecipientEmail(applied.b, env) >>]
  /\ UNCHANGED <<env, req, pc, handler, payload, sent, outcome, emailResult, resp, stages>>

\* Document URIs by what new URL makes of them.  URLs whose host contains
\* signic.email:
SignicUris ==
  { Str(<<"h", "t", "t", "p", "s", ":", "/", "/", "a", "p", "p", ".", "s", "i", "g", "n", "i", "c", ".", "e", "m", "a", "i", "l", "/", "i", "n", "b", "o", "x">>),
    Str(<<"H", "T", "T", "P", "S", ":", "/", "/", "A", "P", "P", ".", "S", "I", "G", "N", "I", "C", ".", "E", "M", "A", "I", "L", "/">>),
    Str(<<"h", "t", "t", "p", "s", ":", "/", "/", "s", "i", "g", "n", "i", "c", ".", "e", "m", "a", "i", "l", ".", "e", "v", "i", "l", ".", "c", "o", "m", "/">>),
    Str(<<"h", "t", "t", "p", ":", "/", "/", "u", "s", "e", "r", "@", "s", "i", "g", "n", "i", "c", ".", "e", "m", "a", "i", "l", ":", "8", "0", "8", "0", "/", "x">>),
    Str(<<"h", "t", "t", "p", "s", ":", "a", "p", "p", ".", "s", "i", "g", "n", "i", "c", ".", "e", "m", "a", "i", "l">>),
    Str(<<" ", "h", "t", "t", "p", "s", ":", "/", "/", "a", "p", "p", ".", "s", "i", "g", "n", "i", "c", ".", "e", "m", "a", "i", "l", "/", " ">>),
    Str(<<"c", "h", "r", "o", "m", "e", "-", "e", "x", "t", "e", "n", "s", "i", "o", "n", ":", "/", "/", "s", "i", "g", "n", "i", "c", ".", "e", "m", "a", "i", "l", "/", "p", "o", "p", "u", "p", ".", "h", "t", "m", "l">>) }

\* URLs of scheme chrome-extension: whose host does not contain it:
ExtensionUris ==
  { Str(<<"c", "h", "r", "o", "m", "e", "-", "e", "x", "t", "e", "n", "s", "i", "o", "n", ":", "/", "/", "a", "b", "c", "d", "1", "2", "3", "4", "/", "p", "o", "p", "u", "p", ".", "h", "t", "m", "l">>),
    Str(<<"C", "H", "R", "O", "M", "E", "-", "E", "X", "T", "E", "N", "S", "I", "O", "N", ":", "/", "/", "a", "b", "c", "d", "/">>),
    Str(<<"c", "h", "r", "o", "m", "e", "-", "e", "x", "t", "e", "n", "s", "i", "o", "n", ":", "p", "o", "p", "u", "p">>),
    Str(<<"c", "h", "r", "o", "m", "e", "-", "e", "x", "t", "e", "n", "s", "i", "o", "n", ":", "/", "/", "S", "I", "G", "N", "I", "C", ".", "E", "M", "A", "I", "L", "/", "x">>) }

\* URLs of neither kind:
OtherUris ==
  { Str(<<"h", "t", "t", "p", "s", ":", "/", "/", "u", "n", "k", "n", "o", "w", "n", ".", "c", "o", "m", "/", "p", "a", "g", "e">>),
    Str(<<"h", "t", "t", "p", "s", ":", "/", "/", "e", "v", "i", "l", ".", "c", "o", "m", "/", "s", "i", "g", "n", "i", "c", ".", "e", "m", "a", "i", "l">>),
    Str(<<"h", "t", "t", "p", "s", ":", "/", "/", "s", "i", "g", "n", "i", "c", ".", "e", "m", "a", "i", "l", "@", "e", "v", "i", "l", ".", "c", "o", "m", "/">>),
    Str(<<"h", "t", "t", "p", "s", ":", "/", "/", "e", "v", "i", "l", ".", "c", "o", "m", "/", "?", "u", "=", "s", "i", "g", "n", "i", "c", ".", "e", "m", "a", "i", "l">>),
    Str(<<"h", "t", "t", "p", "s", ":", "/", "/", "e", "v", "i", "l", ".", "c", "o", "m", "/", "?", "u", "=", "c", "h", "r", "o", "m", "e", "-", "e", "x", "t", "e", "n", "s", "i", "o", "n", ":", "/", "/", "a">>),
    Str(<<"m", "o", "z", "-", "e", "x", "t", "e", "n", "s", "i", "o", "n", ":", "/", "/", "a", "b", "c", "d", "/">>),
    Str(<<"a", "b", "o", "u", "t", ":", "b", "l", "a", "n", "k">>) }

\* Values new URL rejects:
NotUris ==
  { Str(<<"n", "o", "t", " ", "a", " ", "u", "r", "l">>), Str(<<>>), Str(<<"s", "i", "g", "n", "i", "c", ".", "e", "m", "a", "i", "l">>),
    Str(<<"/", "/", "a", "p", "p", ".", "s", "i", "g", "n", "i", "c", ".", "e", "m", "a", "i", "l", "/", "x">>), Str(<<"/", "i", "n", "b", "o", "x">>),
    Str(<<"c", "h", "r", "o", "m", "e", "-", "e", "x", "t", "e", "n", "s", "i", "o", "n">>), Str(<<"h", "t", "t", "p", "s", ":", "/", "/">>),
    Undef, Null, Num(1) }

InferCalls ==
  { [fn |-> "inferAppName", arg |-> u, done |-> FALSE, result |-> <<>>] :
      u \in SignicUris \cup ExtensionUris \cup OtherUris \cup NotUris }

ApplyInferAppName ==
  /\ applied.fn = "inferAppName" /\ ~applied.done
  /\ applied' = [applied EXCEPT !.done = TRUE, !.result = inferAppName(applied.arg)]
  /\ UNCHANGED <<env, req, pc, handler, payload, sent, outcome, emailResult, resp, stages>>

\* Strings given to the escaper: every string of at most MaxTextLen
\* characters over the five metacharacters, a letter and a semicolon, and the
\* strings of the tests.
MaxTextLen == 3

TextChars == {"&", "<", ">", "\"", "'", "a", ";"}

TestTexts ==
  { <<"f", "o", "o", " ", "&", " ", "b", "a", "r">>, <<"<", "s", "c", "r", "i", "p", "t", ">", "a", "l", "e", "r", "t", "(", "\"", "x", "s", "s", "\"", ")", "<", "/", "s", "c", "r", "i", "p", "t", ">">>,
    <<"i", "t", "'", "s">>, <<"h", "e", "l", "l", "o", " ", "w", "o", "r", "l", "d">>, <<"&", "a", "m", "p", ";">>, <<"&", "l", "t", ";", "b", "&", "g", "t", ";">>, <<"<", "b", ">", "1", ".", "0", "<", "/", "b", ">">> }

Texts == StringsUpTo(TextChars, MaxTextLen) \cup TestTexts

EscapeCalls ==
  { [fn |-> "escapeHtml", arg |-> s, done |-> FALSE, result |-> <<>>] : s \in Texts }

ApplyEscapeHtml ==
  /\ applied.fn = "escapeHtml" /\ ~applied.done
  /\ applied' = [applied EXCEPT !.done = TRUE, !.result = escapeHtml(applied.arg)]
  /\ UNCHANGED <<env, req, pc, handler, payload, sent, outcome, emailResult, resp, stages>>

\* Alerts given to the renderer: what validateAlertPayload lets through, with
\* the strings of the renderer's tests.  The optional properties come all
\* absent, one at a time, all together, and with the falsy and ill-typed
\* values a JSON body can carry.
RenderOptionalInputs ==
  OptionalInputs \cup
  { [stack |-> Undef, appVersion |-> Str(<<"<", "b", ">", "1", ".", "0", "<", "/", "b", ">">>), userAgent |-> Undef, metadata |-> Undef],
    [stack |-> Undef, appVersion |-> Undef, userAgent |-> Str(<<"<", "s", "c", "r", "i", "p", "t", ">", "e", "v", "i", "l", "(", ")", "<", "/", "s", "c", "r", "i", "p", "t", ">">>), metadata |-> Undef],
    [stack |-> Str(<<"<", "i", "m", "g", " ", "s", "r", "c", "=", "x", " ", "o", "n", "e", "r", "r", "o", "r", "=", "a", "l", "e", "r", "t", "(", "1", ")", ">">>), appVersion |-> Undef, userAgent |-> Undef, metadata |-> Undef],
    [stack |-> Undef, appVersion |-> Undef, userAgent |-> Undef,
     metadata |-> Dict(<< <<<<"d", "o", "c", "u", "m", "e", "n", "t", "U", "r", "i">>, Str(<<"h", "t", "t", "p", "s", ":", "/", "/", "e", "x", "a", "m", "p", "l", "e", ".", "c", "o", "m", "/", "p", "a", "g", "e">>)>> >>)],
    [stack |-> Str(<<>>), appVersion |-> Str(<<>>), userAgent |-> Str(<<>>), metadata |-> Null],
    [stack |-> Undef, appVersion |-> Null, userAgent |-> Null, metadata |-> Num(0)],
    [stack |-> Undef, appVersion |-> Undef, userAgent |-> Num(5), metadata |-> Bool(FALSE)] }

RenderAlerts ==
  { [appName |-> Str(a), type |-> Str(VALID_ALERT_TYPES[ty]), url |-> Str(u),
     hostname |-> Str(h), timestamp |-> Num(ts),
     stack |-> o.stack, appVersion |-> o.appVersion, userAgent |-> o.userAgent,
     metadata |-> o.metadata] :
      a \in {mail_box, <<"<", "s", "c", "r", "i", "p", "t", ">", "x", "s", "s", "<", "/", "s", "c", "r", "i", "p", "t", ">">>},
      ty \in DOMAIN VALID_ALERT_TYPES,
      u \in {<<"h", "t", "t", "p", "s", ":", "/", "/", "m", "a", "l", "i", "c", "i", "o", "u", "s", ".", "c", "o", "m", "/", "a", "p", "i">>, <<"h", "t", "t", "p", "s", ":", "/", "/", "e", "x", "a", "m", "p", "l", "e", ".", "c", "o", "m", "?", "q", "=", "<", "b", ">", "b", "o", "l", "d", "<", "/", "b", ">", "&", "x", "=", "'", "1", "'">>},
      h \in {<<"m", "a", "l", "i", "c", "i", "o", "u", "s", ".", "c", "o", "m">>, <<"<", "i", "m", "g", " ", "o", "n", "e", "r", "r", "o", "r", "=", "a", "l", "e", "r", "t", "(", "1", ")", ">">>},
      ts \in {0, 19675, MaxTimeValue + 1},
      o \in RenderOptionalInputs }

RenderCalls ==
  { [fn |-> "formatSecurityAlertEmail", arg |-> a, done |-> FALSE, result |-> <<>>] :
      a \in RenderAlerts }

ApplyFormatSecurityAlertEmail ==
  /\ applied.fn = "formatSecurityAlertEmail" /\ ~applied.done
  /\ applied' = [applied EXCEPT !.done = TRUE,
                                !.result = formatSecurityAlertEmail(applied.arg)]
  /\ UNCHANGED <<env, req, pc, handler, payload, sent, outcome, emailResult, resp, stages>>

CallsInit ==
  /\ Idle
  /\ \/ env \in Registries /\ applied \in RecipientCalls
     \/ env = TestEnv /\ applied \in InferCalls
     \/ env = TestEnv /\ applied \in EscapeCalls
     \/ env = TestEnv /\ applied \in RenderCalls

CallsNext ==
  \/ ApplyGetRecipientEmail
  \/ ApplyInferAppName
  \/ ApplyEscapeHtml
  \/ ApplyFormatSecurityAlertEmail

Calls == CallsInit /\ [][CallsNext]_vars

(***************************************************************************)
(* Properties                                                              *)
(***************************************************************************)
\* A request whose response has been produced.
Done(i) == pc[i] = "done"

PostTo(i, paths) == req[i].method = "POST" /\ req[i].path \in paths

AlertPaths == {"/alert", "/security-alert"}

\* request.json() has settled with a JSON value.
Parsed(i) == payload[i] \notin {NotRead, SyntaxError}

\* The property k of a JSON value, undefined when the value has none.
PayloadField(p, k) ==
  IF p.t = "object" /\ "f" \in DOMAIN p /\ k \in DOMAIN p.f THEN p.f[k] ELSE Undef

HasNonEmptyAppName(p) ==
  PayloadField(p, "appName").t = "string" /\ PayloadField(p, "appName").v # <<>>

HasKnownType(p) ==
  /\ PayloadField(p, "type").t = "string"
  /\ \E k \in 1..4 : VALID_ALERT_TYPES[k] = PayloadField(p, "type").v

\* The payload passes required-field validation.
HasRequiredFields(p) ==
  /\ HasNonEmptyAppName(p)
  /\ HasKnownType(p)
  /\ PayloadField(p, "url").t = "string"
  /\ PayloadField(p, "hostname").t = "string"
  /\ PayloadField(p, "timestamp").t = "number"

\* The message of the first required field that fails.
FieldMessage(p) ==
  IF ~HasNonEmptyAppName(p) THEN "appName must be a non-empty string"
  ELSE IF ~HasKnownType(p)
    THEN "type must be one of: unauthorized_fetch, unauthorized_xhr, unauthorized_websocket, csp_violation"
  ELSE IF PayloadField(p, "url").t # "string" THEN "url must be a string"
  ELSE IF PayloadField(p, "hostname").t # "string" THEN "hostname must be a string"
  ELSE "timestamp must be a number"

IsJsonError(r, status, message) ==
  /\ r.status = status
  /\ r.body = [kind |-> "json", json |-> [success |-> FALSE, error |-> message]]

IsEmpty204(r) == r.status = 204 /\ r.body = [kind |-> "empty"]

\* The registry has an entry for the application name.
RegistryKey(appName) ==
  <<"A", "P", "P", "_">> \o ReplaceChar(toUpperCase(appName), "-", "_")
    \o <<"_", "E", "M", "A", "I", "L">>

Registered(appName) == RegistryKey(appName) \in DOMAIN env

\* The registry names a recipient for the application.
ResolvesRecipient(appName) == Registered(appName) /\ env[RegistryKey(appName)] # <<>>

\* sendEmail has been entered for the request.
SendAttempted(i) == \E k \in DOMAIN stages[i] : stages[i][k] = "send"

HasCredential == SENDGRID_API_KEY \in DOMAIN env /\ env[SENDGRID_API_KEY] # <<>>

\* The request declares, in its Content-Length header, a body above 102400.
DeclaresOversize(i) ==
  \E n \in BodySizes : n > 102400 /\ req[i].contentLength = Str(ToDecimal(n))

CorsHeaderPairs ==
  { <<"Access-Control-Allow-Origin", "*">>,
    <<"Access-Control-Allow-Methods", "POST, OPTIONS">>,
    <<"Access-Control-Allow-Headers", "Content-Type">> }

\* C1: every POST to /alert or /security-alert whose JSON body fails
\* required-field validation is answered 400 with the message of the failing
\* field, and makes no outbound call.
C1_RequiredFieldRejection ==
  \A i \in Slots :
    (Done(i) /\ PostTo(i, AlertPaths) /\ Parsed(i) /\ ~HasRequiredFields(payload[i]))
      => /\ IsJsonError(resp[i], 400, FieldMessage(payload[i]))
         /\ sent[i] = <<>>

\* The application name handleCspReport works with: the appName query
\* parameter, else the name inferred from the report's document-uri.
CspAppName(i) ==
  IF Truthy(req[i].appNameParam) THEN req[i].appNameParam
  ELSE inferAppName(PayloadField(PayloadField(payload[i], "csp-report"), "document-uri"))

\* The body is a CSP report for which the handler arrives at an application
\* name: report['csp-report'] can be read, and so can its document-uri when
\* there is no query parameter.
CspAppNameDetermined(i) ==
  /\ Parsed(i)
  /\ payload[i] # Null
  /\ Truthy(req[i].appNameParam) \/ PayloadField(payload[i], "csp-report").t = "object"
  /\ Truthy(CspAppName(i))

\* C2: a valid alert for an application without a registry entry is answered
\* 400 {success:false, error:'Unknown app'}; a CSP report whose application
\* name (the query parameter, else the inferred name) has no registry entry
\* is answered 204 with an empty body; neither makes an outbound call.
C2_UnknownAppAsymmetry ==
  \A i \in Slots :
    /\ (/\ Done(i) /\ PostTo(i, AlertPaths) /\ Parsed(i)
        /\ HasRequiredFields(payload[i])
        /\ ~Registered(payload[i].f.appName.v))
         => IsJsonError(resp[i], 400, "Unknown app") /\ sent[i] = <<>>
    /\ (/\ Done(i) /\ PostTo(i, {"/csp-report"})
        /\ CspAppNameDetermined(i)
        /\ ~Registered(CspAppName(i).v))
         => IsEmpty204(resp[i]) /\ sent[i] = <<>>

\* The unknown application ghost_app on both endpoints: a CSP report with
\* ?appName=ghost_app answered 204, in an environment where a valid alert for
\* ghost_app is answered 400.
C2_Witness ==
  \E i \in Slots :
    /\ Done(i) /\ PostTo(i, {"/csp-report"}) /\ CspAppNameDetermined(i)
    /\ req[i].appNameParam = Str(ghost_app)
    /\ PayloadField(payload[i], "csp-report").t = "object"
    /\ ~Registered(ghost_app)
    /\ IsEmpty204(resp[i])
    /\ handleSecurityAlert(Obj([appName |-> Str(ghost_app), type |-> Str(VALID_ALERT_TYPES[1]),
                                url |-> Str(<<"u">>), hostname |-> Str(<<"h">>),
                                timestamp |-> Num(1)]), env).resp.status = 400

\* The null body on /alert: no appName to validate, answered 500.
C1_NullBody500 ==
  \E i \in Slots :
    /\ Done(i) /\ PostTo(i, AlertPaths) /\ payload[i] = Null
    /\ IsJsonError(resp[i], 500, "Internal error")

\* C3: for every alert that passes validation and resolves to a recipient,
\* once the transport has been invoked the response body is {success: b}
\* with b true exactly when the provider answered with a success status, and
\* the status is 200 when b and 500 otherwise.
C3_AlertResponseMirrorsTransport ==
  \A i \in Slots :
    (/\ Done(i) /\ PostTo(i, AlertPaths) /\ Parsed(i)
     /\ HasRequiredFields(payload[i])
     /\ ResolvesRecipient(payload[i].f.appName.v)
     /\ SendAttempted(i))
      => LET b == outcome[i] = "ok"
         IN /\ resp[i].body = [kind |-> "json", json |-> [success |-> b]]
            /\ resp[i].status = IF b THEN 200 ELSE 500

\* A valid alert whose outbound call fails on the network: answered with the
\* generic error body of the catch block.
C3_NetworkFailureBody ==
  \E i \in Slots :
    /\ Done(i) /\ PostTo(i, AlertPaths) /\ HasRequiredFields(payload[i])
    /\ outcome[i] = "rejected"
    /\ IsJsonError(resp[i], 500, "Internal error")

\* C4: for every CSP report whose application name resolves to a recipient,
\* once the send has been attempted the response is 204 with an empty body,
\* whatever the send came to: success, a provider non-success status, a
\* network failure or a missing credential.
C4_Csp204WhateverTheSendOutcome ==
  \A i \in Slots :
    (/\ Done(i) /\ PostTo(i, {"/csp-report"})
     /\ CspAppNameDetermined(i)
     /\ ResolvesRecipient(CspAppName(i).v)
     /\ SendAttempted(i))
      => IsEmpty204(resp[i])

\* A CSP report for a registered application whose outbound call fails on the
\* network: answered 500.
C4_NetworkFailure500 ==
  \E i \in Slots :
    /\ Done(i) /\ PostTo(i, {"/csp-report"}) /\ CspAppNameDetermined(i)
    /\ outcome[i] = "rejected"
    /\ resp[i].status = 500

\* C5: sendEmail returns true only when the provider answered with a success
\* status; a non-success status, a network failure and a missing credential
\* each make it return false, never raise; without a credential no outbound
\* call is made.
C5_TransportReportsFailureAsFalse ==
  \A i \in Slots :
    (Done(i) /\ SendAttempted(i))
      => /\ emailResult[i] \in {"true", "false"}
         /\ emailResult[i] = "true" <=> outcome[i] = "ok"
         /\ ~HasCredential => sent[i] = <<>> /\ outcome[i] = "none"

\* sendEmail raising on a network failure of the outbound call.
C5_NetworkFailureRaises ==
  \E i \in Slots :
    /\ Done(i) /\ SendAttempted(i) /\ HasCredential
    /\ outcome[i] = "rejected" /\ emailResult[i] = "raised"

\* C6: every POST to /csp-report whose body parses as JSON is answered 204
\* with an empty body, whatever the parsed value and the query parameters; a
\* 500 on /csp-report comes only from a body that does not parse.
C6_CspNeverErrors ==
  \A i \in Slots :
    (Done(i) /\ PostTo(i, {"/csp-report"}))
      => /\ Parsed(i) => IsEmpty204(resp[i])
         /\ resp[i].status = 500 => payload[i] = SyntaxError

\* The JSON body {} on /csp-report: parsed, and answered 500.
C6_EmptyObject500 ==
  \E i \in Slots :
    /\ Done(i) /\ PostTo(i, {"/csp-report"})
    /\ payload[i] = Obj([x \in {} |-> Undef])
    /\ IsJsonError(resp[i], 500, "Internal error")

C8_RoutingTable ==
  \A i \in Slots :
    Done(i) =>
      /\ req[i].method = "OPTIONS"
           => resp[i].status = 200 /\ resp[i].body = [kind |-> "empty"] /\ sent[i] = <<>>
      /\ req[i].method \notin {"OPTIONS", "POST"}
           => resp[i].status = 405 /\ sent[i] = <<>>
      /\ (req[i].method = "POST" /\ req[i].path \notin AlertPaths \cup {"/csp-report"})
           => resp[i].status = 404 /\ sent[i] = <<>>
      /\ PostTo(i, AlertPaths) => handler[i] # "handleCspReport" /\ resp[i].status # 404

\* C8 with the size guard: as C8_RoutingTable, except that a POST declaring a
\* Content-Length above 102400 is answered 413 on every path, before routing;
\* every other POST to an unknown path is answered 404, and every other POST
\* to /alert or /security-alert goes to handleSecurityAlert.
C8_RoutingTableWithSizeGuard ==
  \A i \in Slots :
    Done(i) =>
      /\ req[i].method = "OPTIONS"
           => resp[i].status = 200 /\ resp[i].body = [kind |-> "empty"] /\ sent[i] = <<>>
      /\ req[i].method \notin {"OPTIONS", "POST"}
           => resp[i].status = 405 /\ sent[i] = <<>>
      /\ (req[i].method = "POST" /\ DeclaresOversize(i))
           => /\ IsJsonError(resp[i], 413, "Payload too large")
              /\ handler[i] = "none" /\ sent[i] = <<>>
      /\ (/\ req[i].method = "POST" /\ ~DeclaresOversize(i)
          /\ req[i].path \notin AlertPaths \cup {"/csp-report"})
           => resp[i].status = 404 /\ sent[i] = <<>>
      /\ (PostTo(i, AlertPaths) /\ ~DeclaresOversize(i))
           => handler[i] = "handleSecurityAlert" /\ resp[i].status # 404

\* A POST to an unknown path that declares an oversize body: answered 413.
C8_Witness ==
  \E i \in Slots :
    /\ Done(i) /\ req[i].method = "POST" /\ req[i].path = "/unknown"
    /\ DeclaresOversize(i)
    /\ resp[i].status = 413

\* C9: every response the worker produces carries
\* Access-Control-Allow-Origin: *, Access-Control-Allow-Methods: POST, OPTIONS
\* and Access-Control-Allow-Headers: Content-Type.
C9_CorsOnEveryResponse ==
  \A i \in Slots : resp[i] # NoResponse => CorsHeaderPairs \subseteq resp[i].headers

\* The response of the catch block, with the three headers.
C9_Witness ==
  \E i \in Slots :
    /\ Done(i) /\ resp[i].status = 500
    /\ CorsHeaderPairs \subseteq resp[i].headers

\* C10: the body of a POST above 102400 bytes is never parsed and no outbound
\* call is made for it, and on the three ingestion paths it is answered 413;
\* a POST whose body is at most 102400 bytes is never answered 413.
C10_BodySizeGuard ==
  \A i \in Slots :
    req[i].method = "POST" =>
      /\ req[i].bodySize > 102400
           => /\ payload[i] = NotRead
              /\ sent[i] = <<>>
              /\ (Done(i) /\ req[i].path \in AlertPaths \cup {"/csp-report"})
                   => resp[i].status = 413
      /\ req[i].bodySize <= 102400 => resp[i].status # 413

\* A body of 102401 bytes sent without a Content-Length header: parsed,
\* mailed and answered 200.
C10_OversizeBodyParsed ==
  \E i \in Slots :
    /\ Done(i) /\ req[i].method = "POST" /\ req[i].bodySize = 102401
    /\ req[i].contentLength = Null
    /\ Parsed(i) /\ sent[i] # <<>> /\ resp[i].status = 200


\* Two names that differ only in letter case and in hyphen versus underscore.
FoldChar(c) == IF c = "-" THEN "_" ELSE ToLowerChar(c)

SameLogicalName(a, b) ==
  Len(a) = Len(b) /\ \A k \in DOMAIN a : FoldChar(a[k]) = FoldChar(b[k])

\* C11: under every registry, two application names that differ only in
\* letter case and in hyphen versus underscore resolve to the same result,
\* and the result of a name is the binding of
\* APP_<upper-cased name, hyphens as underscores>_EMAIL, undefined when the
\* registry has none.
C11_NormalizationEquivalence ==
  (applied.fn = "getRecipientEmail" /\ applied.done)
    => /\ SameLogicalName(applied.a, applied.b) => applied.result[1] = applied.result[2]
       /\ applied.result[1] =
            IF Registered(applied.a) THEN Str(env[RegistryKey(applied.a)]) ELSE Undef

\* mail-box and Mail_Box both resolve to the address of APP_MAIL_BOX_EMAIL.
C11_Witness ==
  /\ applied.fn = "getRecipientEmail" /\ applied.done
  /\ applied.a = <<"m", "a", "i", "l", "-", "b", "o", "x">> /\ applied.b = <<"M", "a", "i", "l", "_", "B", "o", "x">>
  /\ applied.result = << Str(<<"m", "a", "i", "l", "b", "o", "x", "@", "t", "e", "s", "t", ".", "c", "o", "m">>), Str(<<"m", "a", "i", "l", "b", "o", "x", "@", "t", "e", "s", "t", ".", "c", "o", "m">>) >>


\* The handler has looked the application up in the registry.
LookupReached(i) == \E k \in DOMAIN stages[i] : stages[i][k] = "lookup"

RenderReached(i) == \E k \in DOMAIN stages[i] : stages[i][k] = "render"

\* The application name the handler looks up.
RequestAppName(i) ==
  IF handler[i] = "handleCspReport" THEN CspAppName(i).v ELSE payload[i].f.appName.v

\* The response of the not-found path: 400 'Unknown app' for an alert, 204
\* without rendering for a CSP report.
NotFoundPath(i) ==
  IF handler[i] = "handleCspReport" THEN IsEmpty204(resp[i]) /\ ~RenderReached(i)
  ELSE IsJsonError(resp[i], 400, "Unknown app")

\* C12 as stated: a handler that has looked an application up takes the
\* not-found path exactly when the registry does not contain the key
\* APP_<NORMALIZED>_EMAIL, and otherwise goes on as for a known application;
\* the lookup itself never ends in the 500 of an exception.
C12_KnownExactlyWhenKeyPresent ==
  \A i \in Slots :
    (Done(i) /\ LookupReached(i))
      => (NotFoundPath(i) <=> ~Registered(RequestAppName(i)))

\* C12 with the empty binding: the not-found path is taken exactly when the
\* registry has no key APP_<NORMALIZED>_EMAIL or binds it to the empty
\* string; the lookup itself never ends in the 500 of an exception.
C12_KnownExactlyWhenRecipient ==
  \A i \in Slots :
    (Done(i) /\ LookupReached(i))
      => /\ NotFoundPath(i) <=> ~ResolvesRecipient(RequestAppName(i))
         /\ NotFoundPath(i) => sent[i] = <<>>
         /\ ResolvesRecipient(RequestAppName(i)) /\ resp[i].status # 500 => RenderReached(i)

\* A CSP report from a chrome-extension: page under a registry that binds
\* APP_MAIL_BOX_WALLET_EMAIL to the empty string: answered as not found.
C12_Witness ==
  \E i \in Slots :
    /\ Done(i) /\ LookupReached(i) /\ handler[i] = "handleCspReport"
    /\ RequestAppName(i) = mail_box_wallet
    /\ Registered(mail_box_wallet) /\ env[RegistryKey(mail_box_wallet)] = <<>>
    /\ NotFoundPath(i)


\* The body is a CSP report: an object with a csp-report object.
IsCspReport(i) == Parsed(i) /\ PayloadField(payload[i], "csp-report").t = "object"

\* What the inference makes of the report's document-uri.
InferredName(i) ==
  inferAppName(PayloadField(PayloadField(payload[i], "csp-report"), "document-uri"))

\* The CSP handler has worked with the application name n: an unregistered n
\* is answered 204 with no outbound call, and for a registered n the handler
\* goes past the lookup, and what it sends goes to the recipient of n under a
\* subject that names n.
HandledAsApp(i, n) ==
  IF ~ResolvesRecipient(n) THEN IsEmpty204(resp[i]) /\ sent[i] = <<>>
  ELSE /\ RenderReached(i) \/ resp[i].status = 500
       /\ \A k \in DOMAIN sent[i] :
            /\ sent[i][k].to = env[RegistryKey(n)]
            /\ SubSeq(sent[i][k].subject, 1, 18 + Len(n))
                 = <<"[", "C", "S", "P", " ", "V", "i", "o", "l", "a", "t", "i", "o", "n", "]", " ">> \o n \o <<":", " ">>

\* C13 as stated: a CSP report with an appName query parameter is handled
\* under that name, whatever its document-uri; a report without the
\* parameter is handled under the inferred name; when neither gives a name
\* the answer is 204 and no outbound call is made.
C13_QueryParameterElseInferred ==
  \A i \in Slots :
    (Done(i) /\ PostTo(i, {"/csp-report"}) /\ IsCspReport(i))
      => /\ req[i].appNameParam # Null => HandledAsApp(i, req[i].appNameParam.v)
         /\ (req[i].appNameParam = Null /\ Truthy(InferredName(i)))
              => HandledAsApp(i, InferredName(i).v)
         /\ (req[i].appNameParam = Null /\ ~Truthy(InferredName(i)))
              => IsEmpty204(resp[i]) /\ sent[i] = <<>>

\* C13 with the empty parameter: a non-empty appName query parameter is the
\* application name, whatever the document-uri; the inferred name is used
\* when the parameter is absent or empty; when neither gives a name the
\* answer is 204 and no outbound call is made.
C13_ExplicitNameElseInferred ==
  \A i \in Slots :
    (Done(i) /\ PostTo(i, {"/csp-report"}) /\ IsCspReport(i))
      => /\ Truthy(req[i].appNameParam) => HandledAsApp(i, req[i].appNameParam.v)
         /\ (~Truthy(req[i].appNameParam) /\ Truthy(InferredName(i)))
              => HandledAsApp(i, InferredName(i).v)
         /\ (~Truthy(req[i].appNameParam) /\ ~Truthy(InferredName(i)))
              => IsEmpty204(resp[i]) /\ sent[i] = <<>>

\* ?appName= (empty) on a report from app.signic.email: mailed to the
\* recipient of the inferred mail_box.
C13_Witness ==
  \E i \in Slots :
    /\ Done(i) /\ PostTo(i, {"/csp-report"}) /\ IsCspReport(i)
    /\ req[i].appNameParam = Str(<<>>)
    /\ InferredName(i) = Str(mail_box)
    /\ Len(sent[i]) = 1 /\ sent[i][1].to = env[RegistryKey(mail_box)]


\* The request passes every check of its handler: an alert that validates
\* and resolves to a recipient, or a CSP report whose explicit or inferred
\* application name resolves to one.
PassesAllChecks(i) ==
  \/ /\ PostTo(i, AlertPaths) /\ Parsed(i)
     /\ HasRequiredFields(payload[i])
     /\ ResolvesRecipient(payload[i].f.appName.v)
  \/ /\ PostTo(i, {"/csp-report"}) /\ IsCspReport(i)
     /\ Truthy(CspAppName(i))
     /\ ResolvesRecipient(CspAppName(i).v)

\* C14: every request that passes all checks, the credential being
\* configured, makes exactly one outbound call, and the recipient of that
\* call is the address the registry binds to the request's normalized
\* application name.
C14_ExactlyOneCallToRecipient ==
  \A i \in Slots :
    (Done(i) /\ PassesAllChecks(i) /\ HasCredential)
      => /\ Len(sent[i]) = 1
         /\ sent[i][1].to = env[RegistryKey(RequestAppName(i))]

\* A valid alert for a registered application whose timestamp is a number
\* outside the range of Date: no outbound call, answered 500.
C14_ValidAlertNotSent ==
  \E i \in Slots :
    /\ Done(i) /\ PassesAllChecks(i) /\ HasCredential
    /\ PostTo(i, AlertPaths)
    /\ payload[i].f.timestamp = Num(MaxTimeValue + 1)
    /\ payload[i].f.appVersion = Undef
    /\ sent[i] = <<>> /\ resp[i].status = 500


\* C15: inferAppName is total and has two rules: a document URI that does not
\* parse as a URL gives no name; one that parses with a host containing
\* signic.email gives mail_box; otherwise one of scheme chrome-extension:
\* gives mail_box_wallet; every other URL gives no name.
C15_InferenceRules ==
  (applied.fn = "inferAppName" /\ applied.done)
    => /\ applied.arg \in NotUris => applied.result = Undef
       /\ applied.arg \in SignicUris => applied.result = Str(<<"m", "a", "i", "l", "_", "b", "o", "x">>)
       /\ applied.arg \in ExtensionUris => applied.result = Str(<<"m", "a", "i", "l", "_", "b", "o", "x", "_", "w", "a", "l", "l", "e", "t">>)
       /\ applied.arg \in OtherUris => applied.result = Undef

\* A URL with the marker in its path only: no name.
C15_Witness ==
  /\ applied.fn = "inferAppName" /\ applied.done
  /\ applied.arg = Str(<<"h", "t", "t", "p", "s", ":", "/", "/", "e", "v", "i", "l", ".", "c", "o", "m", "/", "s", "i", "g", "n", "i", "c", ".", "e", "m", "a", "i", "l">>)
  /\ applied.result = Undef


\* The entity of one character, and a string mapped character by character.
EntityOf(c) ==
  CASE c = "&" -> <<"&", "a", "m", "p", ";">>
    [] c = "<" -> <<"&", "l", "t", ";">>
    [] c = ">" -> <<"&", "g", "t", ";">>
    [] c = "\"" -> <<"&", "q", "u", "o", "t", ";">>
    [] c = "'" -> <<"&", "#", "0", "3", "9", ";">>
    [] OTHER -> <<c>>

RECURSIVE MappedPerCharacter(_)
MappedPerCharacter(s) ==
  IF s = <<>> THEN <<>> ELSE EntityOf(Head(s)) \o MappedPerCharacter(Tail(s))

HtmlMetacharacters == {"&", "<", ">", "\"", "'"}

HasMetacharacter(s) == \E k \in DOMAIN s : s[k] \in HtmlMetacharacters

\* C16: escapeHtml of a string is the string mapped character by character
\* (& to &amp;, < to &lt;, > to &gt;, " to &quot;, ' to &#039;, any other
\* character kept), the ampersand of an entity is not escaped again, and a
\* string without the five characters, the empty one included, is returned
\* unchanged.
C16_EscapesPerCharacter ==
  (applied.fn = "escapeHtml" /\ applied.done)
    => /\ applied.result = MappedPerCharacter(applied.arg)
       /\ ~HasMetacharacter(applied.arg) => applied.result = applied.arg

\* A string holding an ampersand and angle brackets is escaped once.
C16_Witness ==
  /\ applied.fn = "escapeHtml" /\ applied.done
  /\ applied.arg = <<"<", "&", ">">>
  /\ applied.result = <<"&", "l", "t", ";", "&", "a", "m", "p", ";", "&", "g", "t", ";">>


\* The renderer has returned a document for the alert it was applied to.
Rendered ==
  /\ applied.fn = "formatSecurityAlertEmail"
  /\ applied.done
  /\ ~applied.result.threw

\* The values a document shows under a label.
ShownUnder(doc, label) ==
  {doc.fields[k].value : k \in {j \in DOMAIN doc.fields : doc.fields[j].label = label}}

HasLabel(doc, label) == ShownUnder(doc, label) # {}

Entities == {<<"&", "a", "m", "p", ";">>, <<"&", "l", "t", ";">>, <<"&", "g", "t", ";">>, <<"&", "q", "u", "o", "t", ";">>, <<"&", "#", "0", "3", "9", ";">>}

\* No literal <, >, " or ' and every & begins one of the five entities.
EntityClean(s) ==
  \A k \in DOMAIN s :
    /\ s[k] \notin {"<", ">", "\"", "'"}
    /\ s[k] = "&" =>
         \E e \in Entities :
           /\ k + Len(e) - 1 <= Len(s)
           /\ SubSeq(s, k, k + Len(e) - 1) = e

C18_ConditionalRendering ==
  Rendered =>
    LET doc == applied.result.v
        alert == applied.arg
    IN /\ HasLabel(doc, "App Version") <=> Truthy(alert.appVersion)
       /\ HasLabel(doc, "Stack Trace") <=> Truthy(alert.stack)
       /\ HasLabel(doc, "Additional Details") <=> Truthy(alert.metadata)
       /\ \A label \in {"Application", "Date & Time", "Blocked URL", "Hostname"} :
            HasLabel(doc, label)

\* An alert with a stack trace and nothing else optional: the document has
\* the four fixed fields and the Stack Trace field only.
C18_Witness ==
  /\ Rendered
  /\ Truthy(applied.arg.stack)
  /\ ~Truthy(applied.arg.appVersion) /\ ~Truthy(applied.arg.metadata)
  /\ Len(applied.result.v.fields) = 5
  /\ HasLabel(applied.result.v, "Stack Trace")


\* The userAgent of the alert behind the emails of request i: the one of the
\* payload on the alert paths, none for the alert handleCspReport builds.
AlertUserAgent(i) ==
  IF handler[i] = "handleSecurityAlert" THEN payload[i].f.userAgent ELSE Undef

TransportReached(i) == \E k \in DOMAIN stages[i] : stages[i][k] = "send"

\* The alert of request i passes validateAlertPayload and names a registered
\* application.
ValidatedKnownAlert(i) ==
  /\ PostTo(i, AlertPaths) /\ Parsed(i)
  /\ HasRequiredFields(payload[i])
  /\ ResolvesRecipient(payload[i].f.appName.v)

\* C20: rendering has no error conditions: an alert that passes the
\* required-field validation, whatever its numeric timestamp, for a known
\* application reaches the transport with its rendered document, and is not
\* answered with the 500 'Internal error' of the catch block.
C20_ValidatedAlertIsRendered ==
  \A i \in Slots :
    (Done(i) /\ ValidatedKnownAlert(i))
      => /\ TransportReached(i)
         /\ ~IsJsonError(resp[i], 500, "Internal error")

\* A validated alert with no optional property and a numeric timestamp beyond
\* the range of Date: rendering raises, the transport is not reached, and the
\* answer is the 500 of the catch block.
C20_RenderRaisesOnTimestamp ==
  \E i \in Slots :
    /\ Done(i) /\ ValidatedKnownAlert(i)
    /\ payload[i].f.timestamp = Num(MaxTimeValue + 1)
    /\ payload[i].f.appVersion = Undef /\ payload[i].f.stack = Undef
    /\ payload[i].f.userAgent = Undef /\ payload[i].f.metadata = Undef
    /\ RenderReached(i) /\ ~TransportReached(i) /\ sent[i] = <<>>
    /\ IsJsonError(resp[i], 500, "Internal error")


\* The handler of request i has read its payload.
PayloadRead(i) == pc[i] \in {"send", "done"}

\* What request i, taken alone, is answered: 400 for an unregistered
\* application; otherwise by the outcome of its own outbound call.
AnswerAlone(i) ==
  IF ~ResolvesRecipient(RequestAppName(i))
    THEN IsJsonError(resp[i], 400, "Unknown app")
  ELSE IF outcome[i] = "rejected"
    THEN IsJsonError(resp[i], 500, "Internal error")
  ELSE IF handler[i] = "handleCspReport"
    THEN IsEmpty204(resp[i])
  ELSE /\ resp[i].status = (IF outcome[i] = "ok" THEN 200 ELSE 500)
       /\ resp[i].body = [kind |-> "json", json |-> [success |-> (outcome[i] = "ok")]]

\* The outbound calls of request i, taken alone: one to the recipient of its
\* application when that is registered, none otherwise.
CallsAlone(i) ==
  IF ResolvesRecipient(RequestAppName(i))
  THEN /\ Len(sent[i]) = 1
       /\ sent[i][1].to = env[RegistryKey(RequestAppName(i))]
  ELSE sent[i] = <<>>

\* C21: whatever the other requests in progress are and however their steps
\* interleave, a request makes the outbound call, and gets the answer, that
\* its own payload and the outcome of its own call determine; requests for
\* the same application each make their call.
C21_RequestIndependence ==
  \A i \in Contexts :
    /\ PayloadRead(i) => CallsAlone(i)
    /\ Done(i) => AnswerAlone(i)

\* Two alerts for the same application, spelled differently, with both calls
\* made: one has been answered 500 after its call failed and the other's
\* call is still in flight.
C21_Witness ==
  /\ handler[1] = "handleSecurityAlert" /\ handler[2] = "handleSecurityAlert"
  /\ pc[1] = "done" /\ pc[2] = "send"
  /\ payload[1] # payload[2]
  /\ outcome[1] = "status" /\ resp[1].status = 500
  /\ Len(sent[1]) = 1 /\ Len(sent[2]) = 1
  /\ sent[1][1].to = sent[2][1].to


\* The alert of request i is a JSON object without an appName property.
LacksAppName(i) ==
  /\ PostTo(i, AlertPaths) /\ Parsed(i)
  /\ payload[i].t = "object"
  /\ PayloadField(payload[i], "appName") = Undef

\* C22: an alert posted without an appName is answered 400 with the error
\* message 'Missing appName'.
C22_MissingAppNameMessage ==
  \A i \in Slots :
    (Done(i) /\ LacksAppName(i)) => IsJsonError(resp[i], 400, "Missing appName")

\* The alert of the test, complete but for its appName, is answered 400 with
\* the message of validateAlertPayload.
C22_OtherMessage ==
  \E i \in Slots :
    /\ Done(i) /\ LacksAppName(i)
    /\ HasKnownType(payload[i])
    /\ PayloadField(payload[i], "url").t = "string"
    /\ PayloadField(payload[i], "hostname").t = "string"
    /\ PayloadField(payload[i], "timestamp").t = "number"
    /\ IsJsonError(resp[i], 400, "appName must be a non-empty string")
    /\ sent[i] = <<>>


\* The order of the stages as the claim has it, and with the body-size guard
\* before the path routing.
StagesRoutingFirst ==
  <<"method", "route", "size", "parse", "validate", "lookup", "render", "send", "respond">>

StagesSizeFirst ==
  <<"method", "size", "route", "parse", "validate", "lookup", "render", "send", "respond">>

Rank(order, s) == CHOOSE k \in DOMAIN order : order[k] = s

\* The stages st were executed in the order given.
InOrder(st, order) ==
  \A a, b \in DOMAIN st : a < b => Rank(order, st[a]) < Rank(order, st[b])

\* The three stages of the entry point, in the order given.
EntryStages(order) == SelectSeq(order, LAMBDA s : s \in {"method", "size", "route"})

\* The stage s of the entry point ends request i: a method that is not POST,
\* a declared size over the ceiling, a path that is not served.
EntryStageEnds(i, s) ==
  CASE s = "method" -> req[i].method # "POST"
    [] s = "size" -> DeclaresOversize(i)
    [] s = "route" -> req[i].path \notin (AlertPaths \cup {"/csp-report"})

EntryStatus(i, s) ==
  CASE s = "method" -> IF req[i].method = "OPTIONS" THEN 200 ELSE 405
    [] s = "size" -> 413
    [] s = "route" -> 404

\* Request i went through the entry point in the order given: it was answered
\* by the first stage that ends it, with no later stage executed, or went
\* through all three.
EntryFollows(i, order) ==
  LET es == EntryStages(order)
      ending == {k \in DOMAIN es : EntryStageEnds(i, es[k])}
      first == CHOOSE k \in ending : \A j \in ending : k <= j
  IN IF ending = {}
     THEN Len(stages[i]) >= 3 /\ SubSeq(stages[i], 1, 3) = es
     ELSE /\ stages[i] = SubSeq(es, 1, first) \o <<"respond">>
          /\ resp[i].status = EntryStatus(i, es[first])
          /\ payload[i] = NotRead /\ sent[i] = <<>>

\* The stages of the handler of a finished request i: they stop at the first
\* one that fails, and a request that made its outbound call went through
\* all of them.
HandlerFollows(i) ==
  LET rest == SubSeq(stages[i], 4, Len(stages[i]))
  IN IF payload[i] = SyntaxError
       THEN rest = <<"parse", "respond">> /\ sent[i] = <<>>
     ELSE IF handler[i] = "handleCspReport"
       THEN /\ rest \in { <<"parse", "respond">>, <<"parse", "lookup", "respond">>,
                          <<"parse", "lookup", "render", "respond">>,
                          <<"parse", "lookup", "render", "send", "respond">> }
            /\ sent[i] # <<>> => rest = <<"parse", "lookup", "render", "send", "respond">>
     ELSE IF ~HasRequiredFields(payload[i])
       THEN rest = <<"parse", "validate", "respond">> /\ sent[i] = <<>>
     ELSE IF ~ResolvesRecipient(payload[i].f.appName.v)
       THEN rest = <<"parse", "validate", "lookup", "respond">> /\ sent[i] = <<>>
     ELSE /\ rest \in { <<"parse", "validate", "lookup", "render", "respond">>,
                        <<"parse", "validate", "lookup", "render", "send", "respond">> }
          /\ sent[i] # <<>>
               => rest = <<"parse", "validate", "lookup", "render", "send", "respond">>

StagesFollow(i, order) ==
  /\ InOrder(stages[i], order)
  /\ req[i] # NoRequest => EntryFollows(i, order)
  /\ (Done(i) /\ handler[i] # "none") => HandlerFollows(i)

\* C23 as stated: every request goes through method check, path routing,
\* body-size guard, JSON parse, field validation, registry lookup, render,
\* outbound call and response in that order; the first stage that fails
\* determines the response and no later stage is executed.
C23_StagesInClaimedOrder == \A i \in Slots : StagesFollow(i, StagesRoutingFirst)

\* C23 with the body-size guard before the path routing: method check,
\* body-size guard, path routing, JSON parse, field validation, registry
\* lookup, render, outbound call, response; the first stage that fails
\* determines the response and no later stage is executed.
C23_StagesInCodeOrder == \A i \in Slots : StagesFollow(i, StagesSizeFirst)

\* A POST to a path that is not served, with a declared size over the
\* ceiling, is answered 413 by the size guard and never routed.
C23_Witness ==
  \E i \in Slots :
    /\ Done(i)
    /\ PostTo(i, {"/unknown"})
    /\ DeclaresOversize(i)
    /\ stages[i] = <<"method", "size", "respond">>
    /\ resp[i].status = 413


\* C24: a request makes at most one outbound call; when it has made one, its
\* response is produced only once the outcome of the call has been observed;
\* and a POST is answered 200 only after the provider answered its call with
\* a success status.
C24_ResponseAfterOutcome ==
  \A i \in Slots :
    /\ Len(sent[i]) <= 1
    /\ (sent[i] # <<>> /\ resp[i] # NoResponse) => outcome[i] # "none"
    /\ (sent[i] # <<>> /\ outcome[i] = "none") => pc[i] = "send"
    /\ (req[i] # NoRequest /\ req[i].method = "POST" /\ resp[i].status = 200)
         => (Len(sent[i]) = 1 /\ outcome[i] = "ok")

\* An alert whose call the provider answered with an error status: the 500
\* follows the outcome.
C24_Witness ==
  \E i \in Slots :
    /\ Done(i) /\ PostTo(i, AlertPaths)
    /\ Len(sent[i]) = 1
    /\ outcome[i] = "status"
    /\ resp[i].status = 500


\* C25: every request that was received gets its response, given that what
\* its handler awaits settles; the response is given once; and once it is
\* given, whatever the outcome of the call, no further call is made and
\* nothing of the request is left to do but to drop its context.
C25_OneResponseNoRetry ==
  /\ \A i \in Slots : (pc[i] \in {"json", "send"}) ~> (pc[i] = "done")
  /\ [](\A i \in Slots : Done(i) => (resp[i] # NoResponse /\ Len(sent[i]) <= 1))
  /\ [][\A i \in Slots :
          /\ resp[i] # NoResponse => resp'[i] \in {resp[i], NoResponse}
          /\ sent[i] # <<>> => sent'[i] \in {sent[i], <<>>}
          /\ Done(i) => (pc'[i] \in {"done", "idle"} /\ sent'[i] \in {sent[i], <<>>})]_vars

\* A CSP report whose call was rejected: answered once, with one call made.
C25_Witness ==
  \E i \in Slots :
    /\ Done(i) /\ handler[i] = "handleCspReport"
    /\ outcome[i] = "rejected"
    /\ Len(sent[i]) = 1
    /\ resp[i] # NoResponse


\* C26: no step of any request, on any path, changes the environment: the
\* registry, the sender and the credential are only read.
C26_EnvironmentOnlyRead == [][env' = env]_vars

\* An alert for an application the registry does not have has been answered
\* 400, and the registry is still without the application.
C26_Witness ==
  \E i \in Slots :
    /\ Done(i) /\ PostTo(i, AlertPaths) /\ Parsed(i)
    /\ HasRequiredFields(payload[i])
    /\ ~Registered(payload[i].f.appName.v)
    /\ IsJsonError(resp[i], 400, "Unknown app")
    /\ env \in Envs

=============================================================================
